---- MODULE Spec2Model ----
(***************************************************************************)
(* Model of the SSD1677 e-paper driver (h0rv/ssd1677): the Display engine  *)
(* of src/display.rs driving a DisplayInterface.  Every public operation   *)
(* of Display is one action; the interface calls it makes are recorded, in *)
(* order, in `log`, and its return value in `result`.                      *)
(***************************************************************************)
EXTENDS Integers, Sequences, FiniteSets, TLC

VARIABLES
    config,         \* Display.config, fixed at construction
    is_display_on,  \* Display.is_display_on
    asleep,         \* the chip is in deep sleep (left only by a hardware reset)
    call,           \* the last operation called, with its arguments
    log,            \* the interface calls made by the last operation, in order
    result,         \* the value the last operation returned
    iface,          \* the hardware Interface: its fields, and its busy_wait
                    \* in progress
    graphic         \* GraphicDisplay: black_buffer and red_buffer, and the
                    \* draw_iter calls since the buffers were last cleared

vars == <<config, is_display_on, asleep, call, log, result, iface, graphic>>

(***************************************************************************)
(* Bounds of the model.                                                    *)
(***************************************************************************)
\* rows of the modelled panel
PanelRows == 2
\* columns of the modelled panel, in bytes (cols = 8 * PanelColBytes)
PanelColBytes == 1
\* how many bytes a caller's buffer may exceed the full-frame size by
ExtraLen == 1
\* the value at which the u32 poll counter of busy_wait wraps, reduced from
\* 2^32 (greater than every timeout set)
IterWrap == 32768
\* the widest (in bytes) and the tallest panel apply_rotation is applied to,
\* besides the 16x16 panel of its tests
RotWidthBytes == 3
RotHeight == 3
\* the draw_iter calls made between two clears of the buffers
MaxDraws == 1

(***************************************************************************)
(* src/command.rs                                                          *)
(***************************************************************************)
SOFT_RESET == 18
BOOSTER_SOFT_START == 12
DRIVER_OUTPUT_CONTROL == 1
BORDER_WAVEFORM == 60
TEMP_SENSOR_CONTROL == 24
DATA_ENTRY_MODE == 17
SET_RAM_X_RANGE == 68
SET_RAM_Y_RANGE == 69
SET_RAM_X_COUNTER == 78
SET_RAM_Y_COUNTER == 79
WRITE_RAM_BW == 36
WRITE_RAM_RED == 38
AUTO_WRITE_BW_RAM == 70
AUTO_WRITE_RED_RAM == 71
DISPLAY_UPDATE_CTRL1 == 33
DISPLAY_UPDATE_CTRL2 == 34
MASTER_ACTIVATION == 32
CTRL1_NORMAL == 0
CTRL1_BYPASS_RED == 64
WRITE_LUT == 50
GATE_VOLTAGE == 3
SOURCE_VOLTAGE == 4
WRITE_VCOM == 44
DEEP_SLEEP == 16

(***************************************************************************)
(* Integer helpers: u8 / u16 arithmetic as the Rust code computes it.      *)
(***************************************************************************)
U16 == 65536

Min(a, b) == IF a < b THEN a ELSE b

\* the largest element of a non-empty set of integers
Max(S) == CHOOSE m \in S : \A n \in S : n <= m

\* saturating_add wrapping around at 2^16 instead of saturating
SaturatingAdd_wrapping(a, b) == (a + b) % U16

\* u16::saturating_add
SaturatingAdd(a, b) == Min(a + b, U16 - 1)

\* u16 addition and subtraction (wrapping, as in a release build)
Add16(a, b) == (a + b) % U16
Sub16(a, b) == (a - b + U16) % U16

\* bitwise OR of two bytes
RECURSIVE BitOrN(_, _, _)
BitOrN(a, b, n) ==
    IF n = 0 THEN 0
    ELSE (IF a % 2 = 1 \/ b % 2 = 1 THEN 1 ELSE 0)
         + 2 * BitOrN(a \div 2, b \div 2, n - 1)

BitOr(a, b) == BitOrN(a, b, 8)

\* &buf[..n]
\* the whole buffer instead of its first n bytes
Take_all(buf, n) == buf

Take(buf, n) == SubSeq(buf, 1, n)

\* AnyNonZero taking every non-empty buffer for a non-zero one
AnyNonZero_nonempty(buf) == Len(buf) > 0

\* AnyNonZero looking at the first byte only
AnyNonZero_first(buf) == Len(buf) > 0 /\ buf[1] # 0

\* buf.iter().any(|byte| *byte != 0)
AnyNonZero(buf) == \E i \in 1..Len(buf) : buf[i] # 0

(***************************************************************************)
(* src/config.rs                                                           *)
(***************************************************************************)
\* src/error.rs
MAX_GATE_OUTPUTS == 680
MAX_SOURCE_OUTPUTS == 960

\* Dimensions::new with the two limits exchanged
Dimensions_new_swapped(rows, cols) ==
    IF rows = 0 \/ rows > MAX_SOURCE_OUTPUTS
    THEN [tag |-> "InvalidDimensions", rows |-> rows, cols |-> cols]
    ELSE IF cols = 0 \/ cols > MAX_GATE_OUTPUTS \/ cols % 8 # 0
    THEN [tag |-> "InvalidDimensions", rows |-> rows, cols |-> cols]
    ELSE [tag |-> "Ok", dims |-> [rows |-> rows, cols |-> cols]]

\* Dimensions::new
Dimensions_new(rows, cols) ==
    IF rows = 0 \/ rows > MAX_GATE_OUTPUTS
    THEN [tag |-> "InvalidDimensions", rows |-> rows, cols |-> cols]
    ELSE IF cols = 0 \/ cols > MAX_SOURCE_OUTPUTS \/ cols % 8 # 0
    THEN [tag |-> "InvalidDimensions", rows |-> rows, cols |-> cols]
    ELSE [tag |-> "Ok", dims |-> [rows |-> rows, cols |-> cols]]

\* buffer_size counting pixels instead of bytes
DimBufferSize_pixels(dims) == dims.rows * dims.cols

\* Dimensions::buffer_size
DimBufferSize(dims) == (dims.rows * dims.cols) \div 8

\* Builder::default, with the dimensions the caller supplied
DefaultConfig(dims) ==
    [ dimensions |-> dims,
      rotation |-> "Rotate0",
      booster_soft_start |-> <<174, 199, 195, 192, 64>>,
      gate_scanning |-> 2,
      border_waveform |-> 1,
      vcom |-> 60,
      data_entry_mode |-> 1,
      ram_x_addressing |-> "Pixels",
      ram_y_inverted |-> FALSE,
      display_update_ctrl2_full |-> 247,
      display_update_ctrl2_partial |-> 199,
      display_update_ctrl2_fast |-> 199,
      display_update_power_on |-> 192,
      display_update_power_off |-> 3,
      clear_bw_value |-> 255,
      clear_red_value |-> 0,
      temp_sensor_control |-> 128 ]

\* a configuration built with the Builder setters for the update-control
\* values: mode bytes that do not already contain the power-on bits, and a
\* power-off pattern other than the default
TunedConfig(dims) ==
    [ DefaultConfig(dims) EXCEPT
        !.display_update_ctrl2_full = 52,
        !.display_update_ctrl2_partial = 28,
        !.display_update_ctrl2_fast = 12,
        !.display_update_power_on = 192,
        !.display_update_power_off = 131 ]

PanelDims == [rows |-> PanelRows, cols |-> 8 * PanelColBytes]

Configs == { DefaultConfig(PanelDims), TunedConfig(PanelDims) }

\* Dimensions::new(480, 480), the panel of the driver's own tests
TestDims == [rows |-> 480, cols |-> 480]

\* the 480x480 panel in every wiring the Builder can describe: each value of
\* the ID0 and ID1 bits of the data-entry mode, X addressed in pixels or in
\* bytes, Y inverted or not
WiringConfigs ==
    { [ DefaultConfig(TestDims) EXCEPT !.data_entry_mode = dem,
                                       !.ram_x_addressing = xa,
                                       !.ram_y_inverted = inv ] :
        dem \in 0..3, xa \in {"Pixels", "Bytes"}, inv \in BOOLEAN }

Rotation == {"Rotate0", "Rotate90", "Rotate180", "Rotate270"}

(***************************************************************************)
(* src/rotation.rs                                                         *)
(***************************************************************************)
\* The u32 subtractions of apply_rotation are written as integer
\* subtractions: for an in-bounds pixel none of them goes below zero.

\* 0x80 >> n and 0x01 << n, for n < 8
Shr80(n) == 128 \div (2 ^ n)
Shl01(n) == 2 ^ n

\* apply_rotation with the Rotate180 index counted from the buffer size
\* instead of the last index
apply_rotation_offbyone(x, y, width, height, rotation) ==
    CASE rotation = "Rotate0" ->
             [index |-> x \div 8 + (width \div 8) * y, bit |-> Shr80(x % 8)]
      [] rotation = "Rotate90" ->
             [index |-> (width - 1 - y) \div 8 + (width \div 8) * x,
              bit |-> Shl01(y % 8)]
      [] rotation = "Rotate180" ->
             [index |-> (width \div 8) * height
                        - (x \div 8 + (width \div 8) * y),
              bit |-> Shl01(x % 8)]
      [] rotation = "Rotate270" ->
             [index |-> y \div 8
                        + (height - 1 - x) * (width \div 8),
              bit |-> Shr80(y % 8)]

\* apply_rotation with the Rotate270 mask counted from the least
\* significant bit, as for Rotate90
apply_rotation_lsb(x, y, width, height, rotation) ==
    CASE rotation = "Rotate0" ->
             [index |-> x \div 8 + (width \div 8) * y, bit |-> Shr80(x % 8)]
      [] rotation = "Rotate90" ->
             [index |-> (width - 1 - y) \div 8 + (width \div 8) * x,
              bit |-> Shl01(y % 8)]
      [] rotation = "Rotate180" ->
             [index |-> ((width \div 8) * height - 1)
                        - (x \div 8 + (width \div 8) * y),
              bit |-> Shl01(x % 8)]
      [] rotation = "Rotate270" ->
             [index |-> y \div 8
                        + (height - 1 - x) * (width \div 8),
              bit |-> Shl01(y % 8)]

\* apply_rotation: the byte index and the bit mask of a logical pixel
apply_rotation(x, y, width, height, rotation) ==
    CASE rotation = "Rotate0" ->
             [index |-> x \div 8 + (width \div 8) * y, bit |-> Shr80(x % 8)]
      [] rotation = "Rotate90" ->
             [index |-> (width - 1 - y) \div 8 + (width \div 8) * x,
              bit |-> Shl01(y % 8)]
      [] rotation = "Rotate180" ->
             [index |-> ((width \div 8) * height - 1)
                        - (x \div 8 + (width \div 8) * y),
              bit |-> Shl01(x % 8)]
      [] rotation = "Rotate270" ->
             [index |-> y \div 8
                        + (height - 1 - x) * (width \div 8),
              bit |-> Shr80(y % 8)]

(***************************************************************************)
(* src/display.rs: types                                                   *)
(***************************************************************************)
RefreshMode == {"Full", "Partial", "Fast"}

\* DeepSleepMode numbered by declaration order
DeepSleepModeByte_ordinal(m) ==
    CASE m = "Normal" -> 0
      [] m = "PreserveRam" -> 1
      [] m = "PreserveRamAndAnalog" -> 2

\* DeepSleepMode as u8
DeepSleepModeByte(m) ==
    CASE m = "Normal" -> 0
      [] m = "PreserveRam" -> 1
      [] m = "PreserveRamAndAnalog" -> 3

DeepSleepMode == {"Normal", "PreserveRam", "PreserveRamAndAnalog"}

LUT_SIZE == 112
LUT_SHORT_SIZE == 105

\* buffer_size counting pixels instead of bytes
RegionBufferSize_pixels(r) == r.w * r.h

\* Region::buffer_size
RegionBufferSize(r) == (r.w \div 8) * r.h

\* the built-in waveform tables of src/lut.rs: opaque blobs of LUT_SIZE bytes
LUT_PARTIAL == [i \in 1..LUT_SIZE |-> 80]
LUT_FAST == [i \in 1..LUT_SIZE |-> 70]

(***************************************************************************)
(* Results and interface calls                                             *)
(***************************************************************************)
Ok == [tag |-> "Ok"]
ErrInterface == [tag |-> "Interface"]
BufferTooSmall(req, prov) ==
    [tag |-> "BufferTooSmall", required |-> req, provided |-> prov]
InvalidRamArea(x, y, w, h) ==
    [tag |-> "InvalidRamArea", x |-> x, y |-> y, w |-> w, h |-> h]
InvalidLutLength(exp, prov) ==
    [tag |-> "InvalidLutLength", expected |-> exp, provided |-> prov]
InvalidLutShortLength(exp, prov) ==
    [tag |-> "InvalidLutShortLength", expected |-> exp, provided |-> prov]

\* one call on the DisplayInterface
Cmd(c) == [kind |-> "cmd", byte |-> c, data |-> <<>>]
Data(d) == [kind |-> "data", byte |-> 0, data |-> d]
Wait == [kind |-> "wait", byte |-> 0, data |-> <<>>]
HwReset == [kind |-> "reset", byte |-> 0, data |-> <<>>]

(***************************************************************************)
(* An operation in progress: the calls made so far, the power flag, the    *)
(* pending result (Ok while running; anything else is an early return      *)
(* through `?`), and the index of the interface call that the transport    *)
(* fails (0: the transport never fails).                                   *)
(***************************************************************************)
Start(on, failAt) == [log |-> <<>>, on |-> on, res |-> Ok, fail |-> failAt]

Running(ctx) == ctx.res = Ok

\* return Err(e)
Return(ctx, e) == IF Running(ctx) THEN [ctx EXCEPT !.res = e] ELSE ctx

\* an interface call whose failure is dropped (`let _ = ...`)
IfCall_ignored(ctx, c) ==
    IF ~Running(ctx) THEN ctx ELSE [ctx EXCEPT !.log = Append(@, c)]

\* a fallible interface call followed by `.map_err(Error::Interface)?`
IfCall(ctx, c) ==
    IF ~Running(ctx) THEN ctx
    ELSE [ctx EXCEPT !.log = Append(@, c),
                     !.res = IF Len(ctx.log) + 1 = ctx.fail
                             THEN ErrInterface ELSE Ok]

\* Display::send_command
send_command(ctx, c) == IfCall(ctx, Cmd(c))

\* Display::send_data
send_data(ctx, d) == IfCall(ctx, Data(d))

\* self.interface.busy_wait(delay).map_err(Error::Interface)?
busy_wait(ctx) == IfCall(ctx, Wait)

\* self.interface.reset(delay): no failure path
hw_reset(ctx) ==
    IF ~Running(ctx) THEN ctx ELSE [ctx EXCEPT !.log = Append(@, HwReset)]

\* self.is_display_on = v
SetOn(ctx, v) == IF Running(ctx) THEN [ctx EXCEPT !.on = v] ELSE ctx

\* little-endian encoding of a u16: the low byte
Lo(v) == v % 256

\* the high byte lost in the cast to u8
Hi_zero(v) == 0

\* little-endian encoding of a u16: the high byte
Hi(v) == v \div 256

(***************************************************************************)
(* src/display.rs: Display                                                 *)
(***************************************************************************)
\* clear_ram starting the red fill without waiting for the black/white one
clear_ram_nowait(ctx, cfg) ==
    LET c1 == send_command(ctx, AUTO_WRITE_BW_RAM)
        c2 == send_data(c1, <<cfg.clear_bw_value>>)
        c4 == send_command(c2, AUTO_WRITE_RED_RAM)
        c5 == send_data(c4, <<cfg.clear_red_value>>)
    IN  busy_wait(c5)

\* Display::clear_ram
clear_ram(ctx, cfg) ==
    LET c1 == send_command(ctx, AUTO_WRITE_BW_RAM)
        c2 == send_data(c1, <<cfg.clear_bw_value>>)
        c3 == busy_wait(c2)
        c4 == send_command(c3, AUTO_WRITE_RED_RAM)
        c5 == send_data(c4, <<cfg.clear_red_value>>)
    IN  busy_wait(c5)

\* Display::init
init(ctx, cfg) ==
    LET rows == cfg.dimensions.rows
        c1 == send_command(ctx, TEMP_SENSOR_CONTROL)
        c2 == send_data(c1, <<cfg.temp_sensor_control>>)
        c3 == send_command(c2, BOOSTER_SOFT_START)
        c4 == send_data(c3, cfg.booster_soft_start)
        c5 == send_command(c4, DRIVER_OUTPUT_CONTROL)
        c6 == send_data(c5, << (rows - 1) % 256, (rows - 1) \div 256,
                               cfg.gate_scanning >>)
        c7 == send_command(c6, BORDER_WAVEFORM)
        c8 == send_data(c7, <<cfg.border_waveform>>)
        c9 == send_command(c8, WRITE_VCOM)
        c10 == send_data(c9, <<cfg.vcom>>)
    IN  clear_ram(c10, cfg)

\* Display::reset
reset(ctx, cfg) ==
    LET c1 == hw_reset(ctx)
        c2 == send_command(c1, SOFT_RESET)
        c3 == busy_wait(c2)
    IN  init(c3, cfg)

\* load_lut accepting every table of at least LUT_SIZE bytes
load_lut_atleast(ctx, lut) ==
    IF ~Running(ctx) THEN ctx
    ELSE IF Len(lut) < LUT_SIZE
    THEN Return(ctx, InvalidLutLength(LUT_SIZE, Len(lut)))
    ELSE send_data(send_command(ctx, WRITE_LUT), lut)

\* Display::load_lut
load_lut(ctx, lut) ==
    IF ~Running(ctx) THEN ctx
    ELSE IF Len(lut) # LUT_SIZE
    THEN Return(ctx, InvalidLutLength(LUT_SIZE, Len(lut)))
    ELSE send_data(send_command(ctx, WRITE_LUT), lut)

\* Display::set_gate_voltage
set_gate_voltage(ctx, voltage) ==
    send_data(send_command(ctx, GATE_VOLTAGE), <<voltage>>)

\* Display::set_source_voltage
set_source_voltage(ctx, voltages) ==
    send_data(send_command(ctx, SOURCE_VOLTAGE), voltages)

\* Display::set_vcom
set_vcom(ctx, vcom) ==
    send_data(send_command(ctx, WRITE_VCOM), <<vcom>>)

\* load_lut_with_voltages accepting the long table as well
load_lut_with_voltages_either(ctx, lut, gate_voltage, source_voltage, vcom) ==
    IF ~Running(ctx) THEN ctx
    ELSE IF Len(lut) # LUT_SHORT_SIZE /\ Len(lut) # LUT_SIZE
    THEN Return(ctx, InvalidLutShortLength(LUT_SHORT_SIZE, Len(lut)))
    ELSE
    LET c1 == send_command(ctx, WRITE_LUT)
        c2 == send_data(c1, lut)
        c3 == set_gate_voltage(c2, gate_voltage)
        c4 == set_source_voltage(c3, source_voltage)
    IN  set_vcom(c4, vcom)

\* Display::load_lut_with_voltages
load_lut_with_voltages(ctx, lut, gate_voltage, source_voltage, vcom) ==
    IF ~Running(ctx) THEN ctx
    ELSE IF Len(lut) # LUT_SHORT_SIZE
    THEN Return(ctx, InvalidLutShortLength(LUT_SHORT_SIZE, Len(lut)))
    ELSE
    LET c1 == send_command(ctx, WRITE_LUT)
        c2 == send_data(c1, lut)
        c3 == set_gate_voltage(c2, gate_voltage)
        c4 == set_source_voltage(c3, source_voltage)
    IN  set_vcom(c4, vcom)

\* XRange sending the raw pair whatever ID0 says
XRange_noswap(cfg, x, w) ==
    IF cfg.ram_x_addressing = "Pixels"
    THEN << x, Sub16(Add16(x, w), 1) >>
    ELSE << x \div 8, Sub16(Add16(x, w), 1) \div 8 >>

\* XRange ending one column past the window
XRange_pastend(cfg, x, w) ==
    LET id0 == cfg.data_entry_mode % 2 # 0
        raw == IF cfg.ram_x_addressing = "Pixels"
               THEN << x, Add16(x, w) >>
               ELSE << x \div 8, Add16(x, w) \div 8 >>
    IN  IF id0 THEN raw ELSE << raw[2], raw[1] >>

\* Display::set_ram_area: the X range as sent, <<x_start, x_end>>
XRange(cfg, x, w) ==
    LET id0 == cfg.data_entry_mode % 2 # 0
        raw == IF cfg.ram_x_addressing = "Pixels"
               THEN << x, Sub16(Add16(x, w), 1) >>
               ELSE << x \div 8, Sub16(Add16(x, w), 1) \div 8 >>
    IN  IF id0 THEN raw ELSE << raw[2], raw[1] >>

\* YRange taking y for the base whatever ram_y_inverted says
YRange_noinvert(cfg, y, h) ==
    LET id1 == (cfg.data_entry_mode \div 2) % 2 # 0
        raw == << y, Sub16(Add16(y, h), 1) >>
    IN  IF id1 THEN raw ELSE << raw[2], raw[1] >>

\* Display::set_ram_area: the Y range as sent, <<y_start, y_end>>
YRange(cfg, y, h) ==
    LET id1 == (cfg.data_entry_mode \div 2) % 2 # 0
        y_base == IF cfg.ram_y_inverted
                  THEN Sub16(Sub16(cfg.dimensions.rows, y), h)
                  ELSE y
        raw == << y_base, Sub16(Add16(y_base, h), 1) >>
    IN  IF id1 THEN raw ELSE << raw[2], raw[1] >>

\* Display::set_ram_area
set_ram_area(ctx, cfg, x, y, w, h) ==
    IF ~Running(ctx) THEN ctx
    ELSE IF w = 0 \/ h = 0
    THEN Return(ctx, InvalidRamArea(x, y, w, h))
    ELSE IF \/ SaturatingAdd(x, w) > cfg.dimensions.cols
            \/ SaturatingAdd(y, h) > cfg.dimensions.rows
    THEN Return(ctx, InvalidRamArea(x, y, w, h))
    ELSE IF x % 8 # 0 \/ w % 8 # 0
    THEN Return(ctx, InvalidRamArea(x, y, w, h))
    ELSE
    LET xr == XRange(cfg, x, w)
        yr == YRange(cfg, y, h)
        c1 == send_command(ctx, DATA_ENTRY_MODE)
        c2 == send_data(c1, <<cfg.data_entry_mode>>)
        c3 == send_command(c2, SET_RAM_X_RANGE)
        c4 == send_data(c3, << Lo(xr[1]), Hi(xr[1]), Lo(xr[2]), Hi(xr[2]) >>)
        c5 == send_command(c4, SET_RAM_Y_RANGE)
        c6 == send_data(c5, << Lo(yr[1]), Hi(yr[1]), Lo(yr[2]), Hi(yr[2]) >>)
        c7 == send_command(c6, SET_RAM_X_COUNTER)
        c8 == send_data(c7, << Lo(xr[1]), Hi(xr[1]) >>)
        c9 == send_command(c8, SET_RAM_Y_COUNTER)
    IN  send_data(c9, << Lo(yr[1]), Hi(yr[1]) >>)

\* ModeCtrl2 taking the full-refresh value for every mode
ModeCtrl2_full(cfg, mode) == cfg.display_update_ctrl2_full

\* the mode-specific update-control-2 value of the configuration
ModeCtrl2(cfg, mode) ==
    CASE mode = "Full" -> cfg.display_update_ctrl2_full
      [] mode = "Partial" -> cfg.display_update_ctrl2_partial
      [] mode = "Fast" -> cfg.display_update_ctrl2_fast

\* refresh_with_mode writing update-control-2 before update-control-1
refresh_with_mode_swapped(ctx, cfg, mode, turn_off, use_red) ==
    LET ctrl1 == IF use_red THEN CTRL1_NORMAL ELSE CTRL1_BYPASS_RED
        mode_byte == ModeCtrl2(cfg, mode)
        with_on == IF ~ctx.on
                   THEN BitOr(mode_byte, cfg.display_update_power_on)
                   ELSE mode_byte
        display_mode == IF turn_off
                        THEN BitOr(with_on, cfg.display_update_power_off)
                        ELSE with_on
        c1 == SetOn(ctx, ~turn_off)
        c2 == send_command(c1, DISPLAY_UPDATE_CTRL2)
        c3 == send_data(c2, <<display_mode>>)
        c4 == send_command(c3, DISPLAY_UPDATE_CTRL1)
        c5 == send_data(c4, <<ctrl1>>)
        c6 == send_command(c5, MASTER_ACTIVATION)
    IN  busy_wait(c6)

\* refresh_with_mode bypassing the red plane whatever use_red says
refresh_with_mode_bypass(ctx, cfg, mode, turn_off, use_red) ==
    LET c1 == send_command(ctx, DISPLAY_UPDATE_CTRL1)
        c2 == send_data(c1, <<CTRL1_BYPASS_RED>>)
        mode_byte == ModeCtrl2(cfg, mode)
        with_on == IF ~c2.on
                   THEN BitOr(mode_byte, cfg.display_update_power_on)
                   ELSE mode_byte
        display_mode == IF turn_off
                        THEN BitOr(with_on, cfg.display_update_power_off)
                        ELSE with_on
        c3 == SetOn(c2, ~turn_off)
        c4 == send_command(c3, DISPLAY_UPDATE_CTRL2)
        c5 == send_data(c4, <<display_mode>>)
        c6 == send_command(c5, MASTER_ACTIVATION)
    IN  busy_wait(c6)

\* Display::refresh_with_mode
refresh_with_mode(ctx, cfg, mode, turn_off, use_red) ==
    LET c1 == send_command(ctx, DISPLAY_UPDATE_CTRL1)
        ctrl1 == IF use_red THEN CTRL1_NORMAL ELSE CTRL1_BYPASS_RED
        c2 == send_data(c1, <<ctrl1>>)
        mode_byte == ModeCtrl2(cfg, mode)
        with_on == IF ~c2.on
                   THEN BitOr(mode_byte, cfg.display_update_power_on)
                   ELSE mode_byte
        display_mode == IF turn_off
                        THEN BitOr(with_on, cfg.display_update_power_off)
                        ELSE with_on
        c3 == SetOn(c2, ~turn_off)
        c4 == send_command(c3, DISPLAY_UPDATE_CTRL2)
        c5 == send_data(c4, <<display_mode>>)
        c6 == send_command(c5, MASTER_ACTIVATION)
    IN  busy_wait(c6)

\* Display::deep_sleep
deep_sleep(ctx, mode) ==
    LET c1 == send_command(ctx, DISPLAY_UPDATE_CTRL1)
        c2 == send_data(c1, <<CTRL1_BYPASS_RED>>)
        c3 == send_command(c2, DISPLAY_UPDATE_CTRL2)
        c4 == send_data(c3, <<3>>)
        c5 == send_command(c4, MASTER_ACTIVATION)
        c6 == busy_wait(c5)
        c7 == SetOn(c6, FALSE)
        down == IF ctx.on THEN c7 ELSE ctx
        c8 == send_command(down, DEEP_SLEEP)
    IN  send_data(c8, <<DeepSleepModeByte(mode)>>)

\* load_builtin_lut with the two tables exchanged
load_builtin_lut_swapped(ctx, mode) ==
    CASE mode = "Full" -> ctx
      [] mode = "Partial" -> load_lut(ctx, LUT_FAST)
      [] mode = "Fast" -> load_lut(ctx, LUT_PARTIAL)

\* the built-in table update_*_internal loads for a mode
load_builtin_lut(ctx, mode) ==
    CASE mode = "Full" -> ctx
      [] mode = "Partial" -> load_lut(ctx, LUT_PARTIAL)
      [] mode = "Fast" -> load_lut(ctx, LUT_FAST)

\* update_with_mode_internal without the red mirror before a Full or Partial
\* refresh
update_with_mode_internal_nomirror(ctx, cfg, black_buffer, red_buffer, mode, use_builtin_lut) ==
    LET explicit_red == Len(red_buffer) # 0 /\ AnyNonZero(red_buffer)
        single_buffer_fast == mode = "Fast" /\ ~explicit_red
        sync_red_before_refresh == FALSE
        use_red_for_refresh == explicit_red \/ single_buffer_fast
        expected_size == DimBufferSize(cfg.dimensions)
        cols == cfg.dimensions.cols
        rows == cfg.dimensions.rows
    IN
    IF ~Running(ctx) THEN ctx
    ELSE IF Len(black_buffer) < expected_size
    THEN Return(ctx, BufferTooSmall(expected_size, Len(black_buffer)))
    ELSE IF explicit_red /\ Len(red_buffer) < expected_size
    THEN Return(ctx, BufferTooSmall(expected_size, Len(red_buffer)))
    ELSE
    LET c1 == IF use_builtin_lut THEN load_builtin_lut(ctx, mode) ELSE ctx
        c2 == set_ram_area(c1, cfg, 0, 0, cols, rows)
        c3 == send_command(c2, WRITE_RAM_BW)
        c4 == send_data(c3, Take(black_buffer, expected_size))
        c5 == IF explicit_red
              THEN send_data(send_command(c4, WRITE_RAM_RED),
                             Take(red_buffer, expected_size))
              ELSE IF sync_red_before_refresh
              THEN send_data(send_command(c4, WRITE_RAM_RED),
                             Take(black_buffer, expected_size))
              ELSE c4
        c6 == refresh_with_mode(c5, cfg, mode, FALSE, use_red_for_refresh)
        c7 == set_ram_area(c6, cfg, 0, 0, cols, rows)
        c8 == send_command(c7, WRITE_RAM_RED)
        c9 == send_data(c8, Take(black_buffer, expected_size))
    IN  IF single_buffer_fast THEN c9 ELSE c6

\* Display::update_with_mode_internal
update_with_mode_internal(ctx, cfg, black_buffer, red_buffer, mode, use_builtin_lut) ==
    LET explicit_red == Len(red_buffer) # 0 /\ AnyNonZero(red_buffer)
        single_buffer_fast == mode = "Fast" /\ ~explicit_red
        sync_red_before_refresh == mode # "Fast" /\ ~explicit_red
        use_red_for_refresh == explicit_red \/ single_buffer_fast
        expected_size == DimBufferSize(cfg.dimensions)
        cols == cfg.dimensions.cols
        rows == cfg.dimensions.rows
    IN
    IF ~Running(ctx) THEN ctx
    ELSE IF Len(black_buffer) < expected_size
    THEN Return(ctx, BufferTooSmall(expected_size, Len(black_buffer)))
    ELSE IF explicit_red /\ Len(red_buffer) < expected_size
    THEN Return(ctx, BufferTooSmall(expected_size, Len(red_buffer)))
    ELSE
    LET c1 == IF use_builtin_lut THEN load_builtin_lut(ctx, mode) ELSE ctx
        c2 == set_ram_area(c1, cfg, 0, 0, cols, rows)
        c3 == send_command(c2, WRITE_RAM_BW)
        c4 == send_data(c3, Take(black_buffer, expected_size))
        c5 == IF explicit_red
              THEN send_data(send_command(c4, WRITE_RAM_RED),
                             Take(red_buffer, expected_size))
              ELSE IF sync_red_before_refresh
              THEN send_data(send_command(c4, WRITE_RAM_RED),
                             Take(black_buffer, expected_size))
              ELSE c4
        c6 == refresh_with_mode(c5, cfg, mode, FALSE, use_red_for_refresh)
        c7 == set_ram_area(c6, cfg, 0, 0, cols, rows)
        c8 == send_command(c7, WRITE_RAM_RED)
        c9 == send_data(c8, Take(black_buffer, expected_size))
    IN  IF single_buffer_fast THEN c9 ELSE c6

\* update_region_internal reprogramming the whole frame after the refresh
update_region_internal_fullwindow(ctx, cfg, update, use_builtin_lut) ==
    LET explicit_red == Len(update.red_buffer) # 0
                        /\ AnyNonZero(update.red_buffer)
        single_buffer_fast == update.mode = "Fast" /\ ~explicit_red
        sync_red_before_refresh == update.mode # "Fast" /\ ~explicit_red
        use_red_for_refresh == explicit_red \/ single_buffer_fast
        expected_size == RegionBufferSize(update.region)
        r == update.region
    IN
    IF ~Running(ctx) THEN ctx
    ELSE IF Len(update.black_buffer) < expected_size
    THEN Return(ctx, BufferTooSmall(expected_size, Len(update.black_buffer)))
    ELSE IF explicit_red /\ Len(update.red_buffer) < expected_size
    THEN Return(ctx, BufferTooSmall(expected_size, Len(update.red_buffer)))
    ELSE
    LET c1 == IF use_builtin_lut
              THEN load_builtin_lut(ctx, update.mode) ELSE ctx
        c2 == set_ram_area(c1, cfg, r.x, r.y, r.w, r.h)
        c3 == send_command(c2, WRITE_RAM_BW)
        c4 == send_data(c3, Take(update.black_buffer, expected_size))
        c5 == IF explicit_red
              THEN send_data(send_command(c4, WRITE_RAM_RED),
                             Take(update.red_buffer, expected_size))
              ELSE IF sync_red_before_refresh
              THEN send_data(send_command(c4, WRITE_RAM_RED),
                             Take(update.black_buffer, expected_size))
              ELSE c4
        c6 == refresh_with_mode(c5, cfg, update.mode, FALSE,
                                use_red_for_refresh)
        c7 == set_ram_area(c6, cfg, 0, 0, cfg.dimensions.cols,
                           cfg.dimensions.rows)
        c8 == send_command(c7, WRITE_RAM_RED)
        c9 == send_data(c8, Take(update.black_buffer, expected_size))
    IN  IF single_buffer_fast THEN c9 ELSE c6

\* Display::update_region_internal; update is an UpdateRegion
update_region_internal(ctx, cfg, update, use_builtin_lut) ==
    LET explicit_red == Len(update.red_buffer) # 0
                        /\ AnyNonZero(update.red_buffer)
        single_buffer_fast == update.mode = "Fast" /\ ~explicit_red
        sync_red_before_refresh == update.mode # "Fast" /\ ~explicit_red
        use_red_for_refresh == explicit_red \/ single_buffer_fast
        expected_size == RegionBufferSize(update.region)
        r == update.region
    IN
    IF ~Running(ctx) THEN ctx
    ELSE IF Len(update.black_buffer) < expected_size
    THEN Return(ctx, BufferTooSmall(expected_size, Len(update.black_buffer)))
    ELSE IF explicit_red /\ Len(update.red_buffer) < expected_size
    THEN Return(ctx, BufferTooSmall(expected_size, Len(update.red_buffer)))
    ELSE
    LET c1 == IF use_builtin_lut
              THEN load_builtin_lut(ctx, update.mode) ELSE ctx
        c2 == set_ram_area(c1, cfg, r.x, r.y, r.w, r.h)
        c3 == send_command(c2, WRITE_RAM_BW)
        c4 == send_data(c3, Take(update.black_buffer, expected_size))
        c5 == IF explicit_red
              THEN send_data(send_command(c4, WRITE_RAM_RED),
                             Take(update.red_buffer, expected_size))
              ELSE IF sync_red_before_refresh
              THEN send_data(send_command(c4, WRITE_RAM_RED),
                             Take(update.black_buffer, expected_size))
              ELSE c4
        c6 == refresh_with_mode(c5, cfg, update.mode, FALSE,
                                use_red_for_refresh)
        c7 == set_ram_area(c6, cfg, r.x, r.y, r.w, r.h)
        c8 == send_command(c7, WRITE_RAM_RED)
        c9 == send_data(c8, Take(update.black_buffer, expected_size))
    IN  IF single_buffer_fast THEN c9 ELSE c6

\* Display::update_with_custom_lut
update_with_custom_lut(ctx, cfg, black_buffer, red_buffer, mode, lut) ==
    update_with_mode_internal(load_lut(ctx, lut), cfg, black_buffer,
                              red_buffer, mode, FALSE)

\* Display::update_region_with_custom_lut
update_region_with_custom_lut(ctx, cfg, update, lut) ==
    update_region_internal(load_lut(ctx, lut), cfg, update, FALSE)

(***************************************************************************)
(* src/graphics.rs: GraphicDisplay                                         *)
(***************************************************************************)
Panic == [tag |-> "Panic"]

\* try_new checking the black/white buffer only
try_new_blackonly(cfg, black_buffer, red_buffer) ==
    LET required == DimBufferSize(cfg.dimensions)
    IN  IF Len(black_buffer) < required
        THEN BufferTooSmall(required, Len(black_buffer))
        ELSE Ok

\* GraphicDisplay::try_new; display.dimensions() is config.dimensions
try_new(cfg, black_buffer, red_buffer) ==
    LET required == DimBufferSize(cfg.dimensions)
    IN  IF Len(black_buffer) < required
        THEN BufferTooSmall(required, Len(black_buffer))
        ELSE IF Len(red_buffer) < required
        THEN BufferTooSmall(required, Len(red_buffer))
        ELSE Ok

\* GraphicDisplay::new: the two assert!s
graphic_new(cfg, black_buffer, red_buffer) ==
    LET required == DimBufferSize(cfg.dimensions)
    IN  IF ~(Len(black_buffer) >= required) THEN Panic
        ELSE IF ~(Len(red_buffer) >= required) THEN Panic
        ELSE Ok

(***************************************************************************)
(* src/color.rs and the drawing half of src/graphics.rs.  A buffer byte at *)
(* Rust index i is element i + 1 of the sequence.  The u32 subtractions of *)
(* apply_rotation panic when they would go below zero (overflow checks     *)
(* on), and so does an index beyond the red buffer: res = Panic.           *)
(***************************************************************************)
Color == {"Black", "White", "Red"}

bw_byte(color) ==
    CASE color = "Black" -> 0
      [] color = "White" -> 255
      [] color = "Red" -> 255

red_byte(color) ==
    CASE color = "Black" -> 0
      [] color = "White" -> 0
      [] color = "Red" -> 255

\* Config::rotated_dimensions
rotated_dimensions(cfg) ==
    IF cfg.rotation \in {"Rotate0", "Rotate180"}
    THEN cfg.dimensions
    ELSE [rows |-> cfg.dimensions.cols, cols |-> cfg.dimensions.rows]

\* GraphicDisplay::clear
clear(g, color) ==
    [g EXCEPT !.black_buffer = [i \in 1..Len(g.black_buffer) |-> bw_byte(color)],
              !.red_buffer = [i \in 1..Len(g.red_buffer) |-> red_byte(color)]]

\* GraphicDisplay::set_pixel; bit is a mask of one bit, so `&= !bit` takes
\* it away from a byte that has it and `|= bit` adds it to one that has not
set_pixel(g, cfg, x, y, color) ==
    LET width == cfg.dimensions.cols
        height == cfg.dimensions.rows
        rotation == cfg.rotation
        underflow ==
            CASE rotation = "Rotate90" -> width - 1 - y < 0
              [] rotation = "Rotate180" ->
                     \/ (width \div 8) * height - 1 < 0
                     \/ ((width \div 8) * height - 1)
                            - (x \div 8 + (width \div 8) * y) < 0
              [] rotation = "Rotate270" -> height - 1 - x < 0
              [] OTHER -> FALSE
        p == apply_rotation(x, y, width, height, rotation)
        i == p.index + 1
        Has(byte) == (byte \div p.bit) % 2 = 1
        AndNot(byte) == IF Has(byte) THEN byte - p.bit ELSE byte
        Or(byte) == IF Has(byte) THEN byte ELSE byte + p.bit
    IN  IF g.res # Ok THEN g
        ELSE IF x >= width \/ y >= height THEN g
        ELSE IF underflow THEN [g EXCEPT !.res = Panic]
        ELSE IF p.index >= Len(g.black_buffer) THEN g
        ELSE IF p.index >= Len(g.red_buffer) THEN [g EXCEPT !.res = Panic]
        ELSE CASE color = "Black" ->
                      [g EXCEPT !.black_buffer[i] = AndNot(@),
                                !.red_buffer[i] = AndNot(@)]
               [] color = "White" ->
                      [g EXCEPT !.black_buffer[i] = Or(@),
                                !.red_buffer[i] = AndNot(@)]
               [] color = "Red" ->
                      [g EXCEPT !.black_buffer[i] = Or(@),
                                !.red_buffer[i] = Or(@)]

\* draw_iter passing every non-negative pixel on to set_pixel
RECURSIVE draw_iter_unfiltered(_, _, _, _)
draw_iter_unfiltered(g, cfg, pixels, k) ==
    IF k > Len(pixels) THEN g
    ELSE LET px == pixels[k]
         IN  IF px.x < 0 \/ px.y < 0
             THEN draw_iter_unfiltered(g, cfg, pixels, k + 1)
             ELSE draw_iter_unfiltered(
                      set_pixel(g, cfg, px.x, px.y, px.color),
                      cfg, pixels, k + 1)

\* DrawTarget::draw_iter from the k-th pixel on; a pixel is [x, y, color]
RECURSIVE draw_iter(_, _, _, _)
draw_iter(g, cfg, pixels, k) ==
    IF k > Len(pixels) THEN g
    ELSE LET sz == rotated_dimensions(cfg)
             px == pixels[k]
         IN  IF px.x < 0 \/ px.y < 0
             THEN draw_iter(g, cfg, pixels, k + 1)
             ELSE IF px.x >= sz.cols \/ px.y >= sz.rows
             THEN draw_iter(g, cfg, pixels, k + 1)
             ELSE draw_iter(set_pixel(g, cfg, px.x, px.y, px.color),
                            cfg, pixels, k + 1)

(***************************************************************************)
(* Inputs of the operations                                                *)
(***************************************************************************)
\* the longest buffer a caller passes
MaxBufLen == DimBufferSize(PanelDims) + ExtraLen

\* the buffer lengths a caller passes: none, and from one byte short of the
\* frame to ExtraLen bytes beyond it
BufLens == {0} \cup (DimBufferSize(PanelDims) - 1)..MaxBufLen

\* black/white buffers: non-zero bytes, all different, so that a payload
\* shows which bytes of which buffer it was taken from
BlackBuffers == { [i \in 1..n |-> 160 + i] : n \in BufLens }

\* red buffers: all-zero (p = 0), or with one non-zero byte, the first or the
\* last (p = 1, p = n)
RedBuffers ==
    UNION { { [i \in 1..n |-> IF i = p THEN 1 ELSE 0] : p \in {0, 1, n} }
            : n \in BufLens }

Region(x, y, w, h) == [x |-> x, y |-> y, w |-> w, h |-> h]

\* the full frame, a single row at the top and at the bottom, and one region
\* for each way set_ram_area rejects: zero width, zero height, beyond the
\* last column, beyond the last row, misaligned x and w, misaligned w
Regions ==
    LET cols == PanelDims.cols
        rows == PanelDims.rows
    IN  { Region(0, 0, cols, rows), Region(0, 0, 8, 1),
          Region(cols - 8, rows - 1, 8, 1),
          Region(0, 0, 0, 1), Region(0, 0, 8, 0),
          Region(cols, 0, 8, 1), Region(0, rows, 8, 1),
          Region(4, 0, 4, 1), Region(0, 0, 4, rows) }

\* the regions set_ram_area accepts
ValidRegions ==
    { g \in Regions : /\ g.w > 0 /\ g.h > 0
                      /\ g.x + g.w <= PanelDims.cols
                      /\ g.y + g.h <= PanelDims.rows
                      /\ g.x % 8 = 0 /\ g.w % 8 = 0 }

\* a frame-sized black/white buffer and one a byte short of it
FrameBlack == { b \in BlackBuffers : Len(b) = DimBufferSize(PanelDims) }
ShortBlack == { b \in BlackBuffers : Len(b) = DimBufferSize(PanelDims) - 1 }

\* no red buffer, and a frame-sized red buffer with a red pixel in byte 1
FrameRed ==
    { r \in RedBuffers : \/ Len(r) = 0
                         \/ Len(r) = DimBufferSize(PanelDims) /\ r[1] # 0 }
\* a red buffer with a red pixel in byte 1, a byte short of the frame
ShortRed ==
    { r \in RedBuffers : Len(r) = DimBufferSize(PanelDims) - 1 /\ Len(r) > 0
                         /\ r[1] # 0 }

\* caller-supplied waveform tables: the right length and one byte short
CustomLuts == { [i \in 1..n |-> 90] : n \in {LUT_SIZE, LUT_SIZE - 1} }

\* waveform tables for load_lut and load_lut_with_voltages: empty, the 50
\* and 200 bytes of the driver's tests, and the two accepted lengths with
\* their neighbours
Luts ==
    { [i \in 1..n |-> 90] :
        n \in {0, 50, LUT_SHORT_SIZE - 1, LUT_SHORT_SIZE, LUT_SHORT_SIZE + 1,
               LUT_SIZE - 1, LUT_SIZE, LUT_SIZE + 1, 200} }

\* the voltage arguments of load_lut_with_voltages
GateVoltages == {23, 0}
SourceVoltages == { <<65, 168, 50>> }
VcomVoltages == {60, 8}

\* the x and w of the windows asked of set_ram_area on the test panel: the
\* full width, the first and the last byte column, two inner spans (one
\* starting, one ending at a 256 boundary), and one pair for each way the
\* code rejects: zero width, misaligned x, misaligned w, beyond the last
\* column, and a sum beyond 16 bits
WindowXW ==
    LET cols == TestDims.cols
    IN  { <<0, cols>>, <<0, 8>>, <<cols - 8, 8>>, <<256, cols - 256>>,
          <<8, 248>>,
          <<0, 0>>, <<4, 8>>, <<0, 12>>, <<cols, 8>>, <<U16 - 8, 16>> }

\* the y and h of those windows: the full height, the first and the last
\* row, two inner spans, and zero height, beyond the last row, and a sum
\* beyond 16 bits
WindowYH ==
    LET rows == TestDims.rows
    IN  { <<0, rows>>, <<0, 1>>, <<rows - 1, 1>>, <<300, rows - 300>>,
          <<1, 255>>,
          <<0, 0>>, <<rows, 1>>, <<U16 - 1, 2>> }

WindowRegions ==
    { Region(xw[1], yh[1], xw[2], yh[2]) : xw \in WindowXW, yh \in WindowYH }

\* the rows and cols asked of Dimensions::new: around each limit, and the
\* ends of the u16 range
DimRows == {0, 1, 2, 300, 480, MAX_GATE_OUTPUTS - 1, MAX_GATE_OUTPUTS,
            MAX_GATE_OUTPUTS + 1, U16 - 1}
DimCols == {0, 1, 7, 8, 9, 16, 480, MAX_SOURCE_OUTPUTS - 8,
            MAX_SOURCE_OUTPUTS - 1, MAX_SOURCE_OUTPUTS,
            MAX_SOURCE_OUTPUTS + 1, MAX_SOURCE_OUTPUTS + 8, U16 - 8, U16 - 1}

\* the transport never fails
NoFault == {0}

\* the transport fails the f-th interface call of the operation, if it makes
\* that many (the longest operation is a single-buffer fast update)
FaultPoints ==
    0..Len(update_with_mode_internal(Start(FALSE, 0), DefaultConfig(PanelDims),
               [i \in 1..DimBufferSize(PanelDims) |-> 0], <<>>, "Fast",
               TRUE).log)

(***************************************************************************)
(* The state after an operation that ran to ctx (a fault index beyond the   *)
(* calls the operation made is the same run as no fault)                   *)
(***************************************************************************)
Finish(ctx, c) ==
    /\ ctx.fail <= Len(ctx.log)
    /\ is_display_on' = ctx.on
    /\ log' = ctx.log
    /\ result' = ctx.res
    /\ call' = c @@ [on_entry |-> is_display_on, fail |-> ctx.fail]
    /\ asleep' = IF c.op = "reset" THEN FALSE
                 ELSE IF c.op = "deep_sleep" /\ ctx.res = Ok THEN TRUE
                 ELSE asleep
    /\ UNCHANGED <<config, iface, graphic>>

(***************************************************************************)
(* src/interface.rs: Interface                                             *)
(***************************************************************************)
DEFAULT_BUSY_TIMEOUT_MS == 30000

\* Interface::new; pc, iterations, pin and ret are the busy_wait in
\* progress: its position, its local counter, what the last poll of the
\* busy pin read, and what it returned
NewInterface ==
    [ busy_timeout_ms |-> DEFAULT_BUSY_TIMEOUT_MS,
      busy_active_high |-> TRUE,
      pc |-> "idle", iterations |-> 0, pin |-> "none", ret |-> "none" ]

\* the timeouts given to set_busy_timeout
Timeouts == {0, 1, 2, DEFAULT_BUSY_TIMEOUT_MS}

\* what a poll of the busy pin gives: a level, or a pin error
PinReads == {"high", "low", "err"}

\* is_busy taking a high pin for busy whatever busy_active_high says
IsBusy_high(active_high, level) == level = "high"

\* busy_wait: is_busy, for a level read
IsBusy(active_high, level) ==
    IF active_high THEN level = "high" ELSE level = "low"

\* the timeout test taken for a count of polls instead of milliseconds
\* left: it never fires
TimedOut_never(timeout_ms, iterations) == FALSE

\* busy_wait: timeout_ms > 0 && iterations >= timeout_ms
TimedOut(timeout_ms, iterations) ==
    timeout_ms > 0 /\ iterations >= timeout_ms

\* Interface::set_busy_timeout
SetBusyTimeout ==
    /\ iface.pc # "poll" /\ iface.pc # "panicked"
    /\ \E t \in Timeouts : iface' = [iface EXCEPT !.busy_timeout_ms = t]
    /\ UNCHANGED <<config, is_display_on, asleep, call, log, result, graphic>>

\* Interface::set_busy_active_high
SetBusyActiveHigh ==
    /\ iface.pc # "poll" /\ iface.pc # "panicked"
    /\ \E b \in BOOLEAN : iface' = [iface EXCEPT !.busy_active_high = b]
    /\ UNCHANGED <<config, is_display_on, asleep, call, log, result, graphic>>

\* Interface::busy_wait: entry
BusyWaitEnter ==
    /\ iface.pc # "poll" /\ iface.pc # "panicked"
    /\ iface' = [iface EXCEPT !.pc = "poll", !.iterations = 0,
                              !.ret = "none"]
    /\ UNCHANGED <<config, is_display_on, asleep, call, log, result, graphic>>

\* Interface::busy_wait: one turn of the loop.  `iterations += 1` at the
\* top of the counter's range wraps (release build) or panics (debug build)
BusyWaitPoll ==
    /\ iface.pc = "poll"
    /\ \E level \in PinReads :
         LET n == iface.iterations + 1
             Done(r) == [iface EXCEPT !.pc = "done", !.iterations = 0,
                                      !.pin = level, !.ret = r]
         IN  IF level = "err" THEN iface' = Done("Pin")
             ELSE IF ~IsBusy(iface.busy_active_high, level)
             THEN iface' = Done("Ok")
             ELSE IF n >= IterWrap
             THEN \/ iface' = [iface EXCEPT !.iterations = 0, !.pin = level]
                  \/ iface' = [iface EXCEPT !.pc = "panicked",
                                            !.pin = level]
             ELSE IF TimedOut(iface.busy_timeout_ms, n)
             THEN iface' = Done("Timeout")
             ELSE iface' = [iface EXCEPT !.iterations = n, !.pin = level]
    /\ UNCHANGED <<config, is_display_on, asleep, call, log, result, graphic>>

(***************************************************************************)
(* Display::new                                                            *)
(***************************************************************************)
Init ==
    /\ config \in Configs
    /\ is_display_on = FALSE
    /\ asleep = FALSE
    /\ call = [op |-> "new", on_entry |-> FALSE, fail |-> 0]
    /\ log = <<>>
    /\ result = Ok
    /\ iface = NewInterface
    /\ graphic = [black_buffer |-> <<>>, red_buffer |-> <<>>, draws |-> 0]

(***************************************************************************)
(* The public operations; B, R: the buffers, G: the regions, L: the tables *)
(* and F: the transport faults the caller and the environment choose from  *)
(***************************************************************************)
Reset(F) ==
    \E f \in F :
        Finish(reset(Start(is_display_on, f), config), [op |-> "reset"])

Update(B, R, F) ==
    \E b \in B, r \in R, f \in F :
        Finish(update_with_mode_internal(Start(is_display_on, f), config,
                                         b, r, "Full", TRUE),
               [op |-> "update", black |-> b, red |-> r, mode |-> "Full"])

UpdateWithMode(B, R, F) ==
    \E b \in B, r \in R, m \in RefreshMode, f \in F :
        Finish(update_with_mode_internal(Start(is_display_on, f), config,
                                         b, r, m, TRUE),
               [op |-> "update_with_mode", black |-> b, red |-> r, mode |-> m])

UpdateWithModeNoLut(B, R, F) ==
    \E b \in B, r \in R, m \in RefreshMode, f \in F :
        Finish(update_with_mode_internal(Start(is_display_on, f), config,
                                         b, r, m, FALSE),
               [op |-> "update_with_mode_no_lut", black |-> b, red |-> r,
                mode |-> m])

UpdateWithCustomLut(B, R, L, F) ==
    \E b \in B, r \in R, m \in RefreshMode, l \in L, f \in F :
        Finish(update_with_custom_lut(Start(is_display_on, f), config,
                                      b, r, m, l),
               [op |-> "update_with_custom_lut", black |-> b, red |-> r,
                mode |-> m, lut |-> l])

UpdateRegion(B, R, G, F) ==
    \E b \in B, r \in R, g \in G, m \in RefreshMode, f \in F :
        Finish(update_region_internal(Start(is_display_on, f), config,
                   [region |-> g, black_buffer |-> b, red_buffer |-> r,
                    mode |-> m], TRUE),
               [op |-> "update_region", black |-> b, red |-> r, mode |-> m,
                region |-> g])

UpdateRegionNoLut(B, R, G, F) ==
    \E b \in B, r \in R, g \in G, m \in RefreshMode, f \in F :
        Finish(update_region_internal(Start(is_display_on, f), config,
                   [region |-> g, black_buffer |-> b, red_buffer |-> r,
                    mode |-> m], FALSE),
               [op |-> "update_region_no_lut", black |-> b, red |-> r,
                mode |-> m, region |-> g])

UpdateRegionWithCustomLut(B, R, G, L, F) ==
    \E b \in B, r \in R, g \in G, m \in RefreshMode, l \in L, f \in F :
        Finish(update_region_with_custom_lut(Start(is_display_on, f), config,
                   [region |-> g, black_buffer |-> b, red_buffer |-> r,
                    mode |-> m], l),
               [op |-> "update_region_with_custom_lut", black |-> b,
                red |-> r, mode |-> m, region |-> g, lut |-> l])

FullRefresh(F) ==
    \E f \in F :
        Finish(refresh_with_mode(Start(is_display_on, f), config, "Full",
                                 FALSE, FALSE),
               [op |-> "full_refresh", mode |-> "Full"])

FastRefresh(F) ==
    \E f \in F :
        Finish(refresh_with_mode(Start(is_display_on, f), config, "Fast",
                                 FALSE, FALSE),
               [op |-> "fast_refresh", mode |-> "Fast"])

DeepSleep(F) ==
    \E m \in DeepSleepMode, f \in F :
        Finish(deep_sleep(Start(is_display_on, f), m),
               [op |-> "deep_sleep", sleep_mode |-> m])

SetRamArea(G, F) ==
    \E g \in G, f \in F :
        Finish(set_ram_area(Start(is_display_on, f), config,
                            g.x, g.y, g.w, g.h),
               [op |-> "set_ram_area", region |-> g])

LoadLut(L, F) ==
    \E l \in L, f \in F :
        Finish(load_lut(Start(is_display_on, f), l),
               [op |-> "load_lut", lut |-> l])

LoadLutWithVoltages(L, F) ==
    \E l \in L, gv \in GateVoltages, sv \in SourceVoltages,
       vc \in VcomVoltages, f \in F :
        Finish(load_lut_with_voltages(Start(is_display_on, f), l, gv, sv, vc),
               [op |-> "load_lut_with_voltages", lut |-> l,
                gate_voltage |-> gv, source_voltage |-> sv, vcom |-> vc])

(***************************************************************************)
(* Spec: the life cycle of a Display on a transport that never fails, in   *)
(* either configuration.                                                   *)
(***************************************************************************)
Next ==
    \/ Reset(NoFault)
    \/ UpdateWithMode(FrameBlack, FrameRed, NoFault)
    \/ UpdateRegion(FrameBlack, FrameRed, ValidRegions, NoFault)
    \/ FullRefresh(NoFault)
    \/ FastRefresh(NoFault)
    \/ DeepSleep(NoFault)

Spec == Init /\ [][Next]_vars

(***************************************************************************)
(* SpecFault: the same life cycle on a transport that may fail any one     *)
(* interface call of an operation, in the default configuration.           *)
(***************************************************************************)
InitDefault == Init /\ config = DefaultConfig(PanelDims)

\* the region of the updates on a failing transport: the top row
FaultRegions == { Region(0, 0, PanelDims.cols, 1) }

NextFault ==
    \/ Reset(FaultPoints)
    \/ UpdateWithMode(FrameBlack, FrameRed, FaultPoints)
    \/ UpdateRegion(FrameBlack, FrameRed, FaultRegions, FaultPoints)
    \/ FullRefresh(FaultPoints)
    \/ FastRefresh(FaultPoints)
    \/ DeepSleep(FaultPoints)

SpecFault == InitDefault /\ [][NextFault]_vars

(***************************************************************************)
(* SpecData: full-frame and region updates over every black/white and red  *)
(* buffer, in every mode.                                                  *)
(***************************************************************************)
NextData ==
    \/ UpdateWithMode(BlackBuffers, RedBuffers, NoFault)
    \/ UpdateRegion(BlackBuffers, RedBuffers, ValidRegions, NoFault)

SpecData == InitDefault /\ [][NextData]_vars

(***************************************************************************)
(* SpecEntry: every update entry point, over valid and invalid regions and *)
(* over buffers and tables of the right length and one byte short.         *)
(***************************************************************************)
EntryBlack == FrameBlack \cup ShortBlack
EntryRed == FrameRed \cup ShortRed

NextEntry ==
    \/ Update(EntryBlack, EntryRed, NoFault)
    \/ UpdateWithMode(EntryBlack, EntryRed, NoFault)
    \/ UpdateWithModeNoLut(EntryBlack, EntryRed, NoFault)
    \/ UpdateWithCustomLut(EntryBlack, EntryRed, CustomLuts, NoFault)
    \/ UpdateRegion(EntryBlack, EntryRed, Regions, NoFault)
    \/ UpdateRegionNoLut(EntryBlack, EntryRed, Regions, NoFault)
    \/ UpdateRegionWithCustomLut(EntryBlack, EntryRed, Regions, CustomLuts,
                                 NoFault)

SpecEntry == InitDefault /\ [][NextEntry]_vars

(***************************************************************************)
(* SpecUnit: the RAM window and the waveform loaders called on their own,  *)
(* on the 480x480 panel in every wiring.                                   *)
(***************************************************************************)
InitWiring ==
    /\ config \in WiringConfigs
    /\ is_display_on = FALSE
    /\ asleep = FALSE
    /\ call = [op |-> "new", on_entry |-> FALSE, fail |-> 0]
    /\ log = <<>>
    /\ result = Ok
    /\ iface = NewInterface
    /\ graphic = [black_buffer |-> <<>>, red_buffer |-> <<>>, draws |-> 0]

NextUnit ==
    \/ SetRamArea(WindowRegions, NoFault)
    \/ LoadLut(Luts, NoFault)
    \/ LoadLutWithVoltages(Luts, NoFault)

SpecUnit == InitWiring /\ [][NextUnit]_vars

(***************************************************************************)
(* SpecWindow: reset and the RAM window on the smallest and the largest    *)
(* panel Dimensions::new accepts and on one with 256 rows and columns, in  *)
(* every wiring.                                                           *)
(***************************************************************************)
\* the windows asked of set_ram_area on a panel: in x the full width, the
\* first and the last byte column; in y the full height, the first and the
\* last row; and the pairs the code rejects: zero, misaligned, beyond the
\* panel by one step, and a sum beyond 16 bits
PanelRegions(cfg) ==
    LET cols == cfg.dimensions.cols
        rows == cfg.dimensions.rows
        XW == { <<0, cols>>, <<0, 8>>, <<cols - 8, 8>>,
                <<0, 0>>, <<4, 8>>, <<8, cols>>, <<cols, 8>>,
                <<U16 - 8, 16>> }
        YH == { <<0, rows>>, <<0, 1>>, <<rows - 1, 1>>,
                <<0, 0>>, <<1, rows>>, <<rows, 1>>, <<U16 - 1, 2>> }
    IN  { Region(xw[1], yh[1], xw[2], yh[2]) : xw \in XW, yh \in YH }

InitWindow ==
    /\ config \in
           { [ DefaultConfig(d) EXCEPT !.data_entry_mode = dem,
                                      !.ram_x_addressing = xa,
                                      !.ram_y_inverted = inv ] :
               d \in { [rows |-> 1, cols |-> 8], [rows |-> 256, cols |-> 256],
                       [rows |-> MAX_GATE_OUTPUTS,
                        cols |-> MAX_SOURCE_OUTPUTS] },
               dem \in 0..3, xa \in {"Pixels", "Bytes"}, inv \in BOOLEAN }
    /\ is_display_on = FALSE
    /\ asleep = FALSE
    /\ call = [op |-> "new", on_entry |-> FALSE, fail |-> 0]
    /\ log = <<>>
    /\ result = Ok
    /\ iface = NewInterface
    /\ graphic = [black_buffer |-> <<>>, red_buffer |-> <<>>, draws |-> 0]

NextWindow ==
    \/ Reset(NoFault)
    \/ SetRamArea(PanelRegions(config), NoFault)

SpecWindow == InitWindow /\ [][NextWindow]_vars

(***************************************************************************)
(* SpecConfig: the constructors, Dimensions::new over rows and cols around *)
(* the limits, and GraphicDisplay::try_new / new over buffers of every     *)
(* length, for a Display in each rotation.                                 *)
(***************************************************************************)
InitGraphic ==
    /\ config \in { [ DefaultConfig(PanelDims) EXCEPT !.rotation = r ] :
                      r \in Rotation }
    /\ is_display_on = FALSE
    /\ asleep = FALSE
    /\ call = [op |-> "new", on_entry |-> FALSE, fail |-> 0]
    /\ log = <<>>
    /\ result = Ok
    /\ iface = NewInterface
    /\ graphic = [black_buffer |-> <<>>, red_buffer |-> <<>>, draws |-> 0]

\* the state after a constructor call c that returned r
Constructed(c, r) ==
    /\ call' = c
    /\ result' = r
    /\ log' = <<>>
    /\ UNCHANGED <<config, is_display_on, asleep, iface, graphic>>

DimensionsNew ==
    \E rows \in DimRows, cols \in DimCols :
        Constructed([op |-> "dimensions_new", rows |-> rows, cols |-> cols,
                     on_entry |-> is_display_on, fail |-> 0],
                    Dimensions_new(rows, cols))

GraphicTryNew(B, R) ==
    \E b \in B, r \in R :
        Constructed([op |-> "try_new", black |-> b, red |-> r,
                     on_entry |-> is_display_on, fail |-> 0],
                    try_new(config, b, r))

GraphicNew(B, R) ==
    \E b \in B, r \in R :
        Constructed([op |-> "graphic_new", black |-> b, red |-> r,
                     on_entry |-> is_display_on, fail |-> 0],
                    graphic_new(config, b, r))

NextConfig ==
    \/ DimensionsNew
    \/ GraphicTryNew(BlackBuffers, RedBuffers)
    \/ GraphicNew(BlackBuffers, RedBuffers)

SpecConfig == InitGraphic /\ [][NextConfig]_vars

(***************************************************************************)
(* SpecDraw: a GraphicDisplay over a wide, a tall and a square panel in    *)
(* each rotation, its buffers all-zero at the start and of the frame size; *)
(* the caller clears them to a colour and draws one pixel, or the same     *)
(* pixel twice, at coordinates before, at and beyond each edge.            *)
(***************************************************************************)
GraphicConfigs ==
    { [ DefaultConfig(d) EXCEPT !.rotation = r ] :
        d \in { [rows |-> 2, cols |-> 16], [rows |-> 9, cols |-> 8],
                [rows |-> 8, cols |-> 8] },
        r \in Rotation }

\* the coordinates drawn at: -1, 0, and the last one inside and the first
\* one beyond the shorter and the longer side of the panel
Coords(cfg) ==
    LET lo == Min(cfg.dimensions.rows, cfg.dimensions.cols)
        hi == Max({cfg.dimensions.rows, cfg.dimensions.cols})
    IN  {-1, 0, lo - 1, lo, hi - 1, hi}

\* what one draw_iter call is given: one pixel, or one inside the shorter
\* side drawn twice
PixelInputs(cfg) ==
    LET lo == Min(cfg.dimensions.rows, cfg.dimensions.cols)
    IN  { << [x |-> x, y |-> y, color |-> c] >> :
            x \in Coords(cfg), y \in Coords(cfg), c \in Color }
        \cup
        { << [x |-> x, y |-> y, color |-> c], [x |-> x, y |-> y, color |-> d] >> :
            x \in {0, lo - 1}, y \in {0, lo - 1}, c \in Color, d \in Color }

InitDraw ==
    /\ config \in GraphicConfigs
    /\ is_display_on = FALSE
    /\ asleep = FALSE
    /\ call = [op |-> "new", on_entry |-> FALSE, fail |-> 0]
    /\ log = <<>>
    /\ result = Ok
    /\ iface = NewInterface
    /\ graphic = [black_buffer |->
                     [i \in 1..DimBufferSize(config.dimensions) |-> 0],
                  red_buffer |->
                     [i \in 1..DimBufferSize(config.dimensions) |-> 0],
                  draws |-> 0]

\* call.black and call.red: the buffers when the operation was called
Clear ==
    \E c \in Color :
        /\ graphic' = [clear(graphic, c) EXCEPT !.draws = 0]
        /\ call' = [op |-> "clear", color |-> c,
                    black |-> graphic.black_buffer,
                    red |-> graphic.red_buffer,
                    on_entry |-> is_display_on, fail |-> 0]
        /\ result' = Ok
        /\ log' = <<>>
        /\ UNCHANGED <<config, is_display_on, asleep, iface>>

DrawIter ==
    /\ graphic.draws < MaxDraws
    /\ \E ps \in PixelInputs(config) :
           LET g == draw_iter([black_buffer |-> graphic.black_buffer,
                               red_buffer |-> graphic.red_buffer,
                               res |-> Ok], config, ps, 1)
           IN  /\ graphic' = [black_buffer |-> g.black_buffer,
                              red_buffer |-> g.red_buffer,
                              draws |-> graphic.draws + 1]
               /\ call' = [op |-> "draw_iter", pixels |-> ps,
                           black |-> graphic.black_buffer,
                           red |-> graphic.red_buffer,
                           on_entry |-> is_display_on, fail |-> 0]
               /\ result' = g.res
               /\ log' = <<>>
               /\ UNCHANGED <<config, is_display_on, asleep, iface>>

NextDraw ==
    \/ Clear
    \/ DrawIter

SpecDraw == InitDraw /\ [][NextDraw]_vars

(***************************************************************************)
(* SpecRotation: apply_rotation on every in-bounds logical pixel of panels *)
(* up to 8 * RotWidthBytes wide and RotHeight high, and of the 16x16 panel *)
(* of its tests, in each rotation.                                         *)
(***************************************************************************)
RotConfigs ==
    { [ DefaultConfig([rows |-> d[2], cols |-> d[1]]) EXCEPT !.rotation = r ] :
        d \in ({ 8 * k : k \in 1..RotWidthBytes } \X (1..RotHeight))
               \cup { <<16, 16>> },
        r \in Rotation }

\* the logical pixels of a panel in a rotation: Rotate90 and Rotate270
\* exchange the two extents
InBounds(width, height, rotation) ==
    IF rotation \in {"Rotate0", "Rotate180"}
    THEN (0..(width - 1)) \X (0..(height - 1))
    ELSE (0..(height - 1)) \X (0..(width - 1))

InitRotation ==
    /\ config \in RotConfigs
    /\ is_display_on = FALSE
    /\ asleep = FALSE
    /\ call = [op |-> "new", on_entry |-> FALSE, fail |-> 0]
    /\ log = <<>>
    /\ result = Ok
    /\ iface = NewInterface
    /\ graphic = [black_buffer |-> <<>>, red_buffer |-> <<>>, draws |-> 0]

ApplyRotation ==
    \E p \in InBounds(config.dimensions.cols, config.dimensions.rows,
                       config.rotation) :
        /\ call' = [op |-> "apply_rotation", x |-> p[1], y |-> p[2],
                    width |-> config.dimensions.cols,
                    height |-> config.dimensions.rows,
                    rotation |-> config.rotation,
                    on_entry |-> is_display_on, fail |-> 0]
        /\ result' = apply_rotation(p[1], p[2], config.dimensions.cols,
                                    config.dimensions.rows, config.rotation)
        /\ log' = <<>>
        /\ UNCHANGED <<config, is_display_on, asleep, iface, graphic>>

NextRotation == ApplyRotation

SpecRotation == InitRotation /\ [][NextRotation]_vars

(***************************************************************************)
(* SpecWait: the ready-wait of the hardware Interface, polling a busy pin  *)
(* that may read either level, or fail, at each poll.  The loop of         *)
(* busy_wait keeps running: weak fairness of its turn.                     *)
(***************************************************************************)
NextWait ==
    \/ SetBusyTimeout
    \/ SetBusyActiveHigh
    \/ BusyWaitEnter
    \/ BusyWaitPoll

SpecWait == InitDefault /\ [][NextWait]_vars /\ WF_vars(BusyWaitPoll)

(***************************************************************************)
(* Reading the recorded interface calls                                    *)
(***************************************************************************)
FrameOps == {"update", "update_with_mode", "update_with_mode_no_lut",
             "update_with_custom_lut"}
RegionOps == {"update_region", "update_region_no_lut",
              "update_region_with_custom_lut"}
UpdateOps == FrameOps \cup RegionOps
RefreshOps == {"full_refresh", "fast_refresh"}

\* the positions at which command c was sent
CmdAt(lg, c) == { i \in 1..Len(lg) : lg[i] = Cmd(c) }

\* the data sent right after the command at position i
DataAfter(lg, i) ==
    IF i < Len(lg) /\ lg[i + 1].kind = "data" THEN lg[i + 1].data ELSE <<>>

\* the payloads sent with command c, anywhere in the log
Payloads(lg, c) == { DataAfter(lg, i) : i \in CmdAt(lg, c) }

\* the steps of a log in order: the command bytes, -1 for a ready-wait and
\* -2 for a hardware reset (the data of each command left out)
Steps(lg) ==
    LET s == SelectSeq(lg, LAMBDA e : e.kind # "data")
    IN  [ i \in 1..Len(s) |-> CASE s[i].kind = "cmd" -> s[i].byte
                                [] s[i].kind = "wait" -> -1
                                [] OTHER -> -2 ]

\* the five window register writes of set_ram_area
WindowWrites ==
    <<DATA_ENTRY_MODE, SET_RAM_X_RANGE, SET_RAM_Y_RANGE,
      SET_RAM_X_COUNTER, SET_RAM_Y_COUNTER>>

\* the positions of the ready-waits
WaitAt(lg) == { i \in 1..Len(lg) : lg[i] = Wait }

\* the byte count the last update call required of its buffers
Required ==
    IF call.op \in RegionOps THEN RegionBufferSize(call.region)
    ELSE DimBufferSize(config.dimensions)

\* the red buffer of the last update call is empty or all-zero
RedIsBlank == \A i \in 1..Len(call.red) : call.red[i] = 0

\* the last call was a successful update through one of the two main entry
\* points with both buffers large enough
MainUpdateOk ==
    /\ call.op \in {"update_with_mode", "update_region"}
    /\ result = Ok
    /\ Len(call.black) >= Required

\* the red-plane writes of the last call before its refresh trigger / after
\* the ready-wait that follows the trigger
RedBeforeTrigger ==
    { i \in CmdAt(log, WRITE_RAM_RED) :
        \A t \in CmdAt(log, MASTER_ACTIVATION) : i < t }
RedAfterWait ==
    { i \in CmdAt(log, WRITE_RAM_RED) :
        \E t \in CmdAt(log, MASTER_ACTIVATION) :
            t < Len(log) /\ log[t + 1] = Wait /\ t + 1 < i }

(***************************************************************************)
(* The controller's two RAM planes, as src/command.rs documents the RAM     *)
(* commands: DATA_ENTRY_MODE gives the direction of the address counter,    *)
(* SET_RAM_X_RANGE / SET_RAM_Y_RANGE the window, SET_RAM_X_COUNTER /        *)
(* SET_RAM_Y_COUNTER the counter, and the bytes after WRITE_RAM_BW /        *)
(* WRITE_RAM_RED go to the plane at the counter, which moves through the    *)
(* window along X first (AM = 0) and wraps in it.  A byte address is        *)
(* <<x, y>>; x counts pixels or bytes as the panel is wired, so a byte is   *)
(* `step` addresses wide.  Unwritten stands for whatever a byte held        *)
(* before the log.                                                         *)
(***************************************************************************)
Unwritten == -1

ChipAddrs ==
    { <<x, y>> : x \in 0..(PanelDims.cols - 1), y \in 0..(PanelDims.rows - 1) }

ChipStart ==
    [ cmd |-> 0, dem |-> 0, xs |-> 0, xe |-> 0, ys |-> 0, ye |-> 0,
      xc |-> 0, yc |-> 0, off |-> 0,
      bw |-> [a \in ChipAddrs |-> Unwritten],
      red |-> [a \in ChipAddrs |-> Unwritten] ]

ChipStep(cfg) == IF cfg.ram_x_addressing = "Pixels" THEN 8 ELSE 1

Word(d, i) == d[i] + 256 * d[i + 1]

Abs(n) == IF n < 0 THEN -n ELSE n

\* the bytes in a row of the window, and its rows
ChipWindowCols(chip, step) == Abs(chip.xe - chip.xs) \div step + 1
ChipWindowRows(chip) == Abs(chip.ye - chip.ys) + 1

\* the address of the n-th byte streamed since the counter was set
ChipAddr(chip, step, n) ==
    LET dx == IF chip.dem % 2 = 1 THEN 1 ELSE -1
        dy == IF (chip.dem \div 2) % 2 = 1 THEN 1 ELSE -1
        nx == ChipWindowCols(chip, step)
        ny == ChipWindowRows(chip)
        t == (((dx * (chip.xc - chip.xs)) \div step) % nx) + n
        r == ((dy * (chip.yc - chip.ys)) % ny) + (t \div nx)
    IN  << chip.xs + dx * step * (t % nx), chip.ys + dy * (r % ny) >>

\* the byte addresses of the programmed window
ChipWindow(chip, step) ==
    { ChipAddr(chip, step, n) :
        n \in 0..(ChipWindowCols(chip, step) * ChipWindowRows(chip) - 1) }

\* a plane after the bytes d were streamed into it
ChipStore(plane, chip, step, d) ==
    [ a \in DOMAIN plane |->
        LET ks == { k \in 1..Len(d) :
                       ChipAddr(chip, step, chip.off + k - 1) = a }
        IN  IF ks = {} THEN plane[a] ELSE d[Max(ks)] ]

\* the chip after the data d of its current command
ChipData(chip, step, d) ==
    CASE chip.cmd = DATA_ENTRY_MODE -> [chip EXCEPT !.dem = d[1]]
      [] chip.cmd = SET_RAM_X_RANGE ->
             [chip EXCEPT !.xs = Word(d, 1), !.xe = Word(d, 3)]
      [] chip.cmd = SET_RAM_Y_RANGE ->
             [chip EXCEPT !.ys = Word(d, 1), !.ye = Word(d, 3)]
      [] chip.cmd = SET_RAM_X_COUNTER ->
             [chip EXCEPT !.xc = Word(d, 1), !.off = 0]
      [] chip.cmd = SET_RAM_Y_COUNTER ->
             [chip EXCEPT !.yc = Word(d, 1), !.off = 0]
      [] chip.cmd = WRITE_RAM_BW ->
             [chip EXCEPT !.bw = ChipStore(chip.bw, chip, step, d),
                          !.off = chip.off + Len(d)]
      [] chip.cmd = WRITE_RAM_RED ->
             [chip EXCEPT !.red = ChipStore(chip.red, chip, step, d),
                          !.off = chip.off + Len(d)]
      [] OTHER -> chip

\* the chip after the calls lg[i], lg[i + 1], ...
RECURSIVE ChipRun(_, _, _, _)
ChipRun(chip, step, lg, i) ==
    IF i > Len(lg) THEN chip
    ELSE ChipRun(CASE lg[i].kind = "cmd" -> [chip EXCEPT !.cmd = lg[i].byte]
                   [] lg[i].kind = "data" -> ChipData(chip, step, lg[i].data)
                   [] OTHER -> chip,
                 step, lg, i + 1)

\* the chip after the last call, whatever its planes held before
ChipAfter == ChipRun(ChipStart, ChipStep(config), log, 1)

C2_MirrorThenBypass ==
    (MainUpdateOk /\ call.mode \in {"Full", "Partial"} /\ RedIsBlank) =>
        /\ Cardinality(RedBeforeTrigger) = 1
        /\ \A i \in RedBeforeTrigger :
               DataAfter(log, i) = Take(call.black, Required)
        /\ Payloads(log, DISPLAY_UPDATE_CTRL1) = { <<64>> }
        /\ CmdAt(log, WRITE_RAM_RED) = RedBeforeTrigger
        /\ log[Len(log)] = Wait

C2_Witness ==
    /\ MainUpdateOk /\ call.mode = "Partial" /\ RedIsBlank
    /\ Len(call.red) > 0
    /\ CmdAt(log, MASTER_ACTIVATION) # {}

(***************************************************************************)
(* C3: in every mode, for the full frame and for a region, a red buffer    *)
(* with a non-zero byte makes the refresh use CTRL1_NORMAL, and the data   *)
(* sent with WRITE_RAM_RED before the trigger is the caller's red buffer.  *)
(***************************************************************************)
C3_ExplicitRed ==
    (MainUpdateOk /\ ~RedIsBlank /\ Len(call.red) >= Required) =>
        /\ Payloads(log, DISPLAY_UPDATE_CTRL1) = { <<0>> }
        /\ Cardinality(RedBeforeTrigger) = 1
        /\ \A i \in CmdAt(log, WRITE_RAM_RED) :
               DataAfter(log, i) = Take(call.red, Required)

C3_Witness ==
    /\ MainUpdateOk /\ ~RedIsBlank /\ Len(call.red) >= Required
    /\ call.mode = "Full"
    /\ Take(call.red, Required) # Take(call.black, Required)
    /\ CmdAt(log, MASTER_ACTIVATION) # {}

(***************************************************************************)
(* C4: an invalid region is rejected before any I/O: when a region update  *)
(* entry point returns InvalidRamArea, nothing was sent to the interface.  *)
(***************************************************************************)
C4_InvalidRegionNoIO ==
    (call.op \in RegionOps /\ result.tag = "InvalidRamArea") => log = <<>>

(***************************************************************************)
(* C5: a too-small buffer is rejected before any I/O: when an update entry *)
(* point returns BufferTooSmall, nothing was sent to the interface.        *)
(***************************************************************************)
C5_BufferTooSmallNoIO ==
    (call.op \in UpdateOps /\ result.tag = "BufferTooSmall") => log = <<>>

(***************************************************************************)
(* C6: reset() re-enters the Idle/PoweredOff state: after a successful     *)
(* reset the power flag is false.                                          *)
(***************************************************************************)
C6_ResetClearsPowerFlag ==
    (call.op = "reset" /\ result = Ok) => ~is_display_on

(***************************************************************************)
(* C7: the power flag becomes true only by a refresh trigger sequence that *)
(* completed successfully; an update or refresh that fails while the flag  *)
(* is false leaves it false.                                               *)
(***************************************************************************)
C7_PowerFlagSetOnlyBySuccess ==
    [][ (~is_display_on /\ is_display_on') =>
            (call'.op \in UpdateOps \cup RefreshOps /\ result' = Ok) ]_vars

(***************************************************************************)
(* C8: in every refresh the control-2 data byte is the configured value of *)
(* the mode, OR'd with the configured power-on bits exactly when the power *)
(* flag was false on entry.                                                *)
(***************************************************************************)
C8_Ctrl2PowerOnBits ==
    (call.op \in UpdateOps \cup RefreshOps
        /\ CmdAt(log, DISPLAY_UPDATE_CTRL2) # {}
        /\ Len(log) > Max(CmdAt(log, DISPLAY_UPDATE_CTRL2))) =>
        LET mode_byte ==
                IF call.mode = "Full" THEN config.display_update_ctrl2_full
                ELSE IF call.mode = "Partial"
                THEN config.display_update_ctrl2_partial
                ELSE config.display_update_ctrl2_fast
        IN  Payloads(log, DISPLAY_UPDATE_CTRL2) =
                { << IF call.on_entry THEN mode_byte
                     ELSE BitOr(mode_byte, config.display_update_power_on) >> }

\* the first update after a successful deep_sleep, with mode bytes that do
\* not contain the power-on bits: 0x34 | 0xC0 = 0xF4
C8_Witness ==
    /\ asleep /\ ~call.on_entry
    /\ call.op = "update_with_mode" /\ call.mode = "Full" /\ result = Ok
    /\ config.display_update_ctrl2_full = 52
    /\ Payloads(log, DISPLAY_UPDATE_CTRL2) = { <<244>> }

(***************************************************************************)
(* C9: deep_sleep sends the power-down cycle (control-1 bypass, control-2  *)
(* power-down byte, activation, ready-wait) exactly when the power flag    *)
(* was true, then in all cases DEEP_SLEEP and one mode byte (0x00, 0x01 or *)
(* 0x03), and leaves the power flag false.                                 *)
(***************************************************************************)
C9_DeepSleepSequence ==
    (call.op = "deep_sleep" /\ result = Ok) =>
        /\ ~is_display_on
        /\ log =
             (IF call.on_entry
              THEN << Cmd(DISPLAY_UPDATE_CTRL1), Data(<<CTRL1_BYPASS_RED>>),
                      Cmd(DISPLAY_UPDATE_CTRL2), Data(<<3>>),
                      Cmd(MASTER_ACTIVATION), Wait >>
              ELSE << >>)
             \o << Cmd(DEEP_SLEEP),
                   Data(<< IF call.sleep_mode = "Normal" THEN 0
                           ELSE IF call.sleep_mode = "PreserveRam" THEN 1
                           ELSE 3 >>) >>

C9_Witness ==
    /\ call.op = "deep_sleep" /\ result = Ok /\ call.on_entry
    /\ call.sleep_mode = "PreserveRamAndAnalog"
    /\ Len(log) = 8

(***************************************************************************)
(* C10: no refresh while asleep: after a successful deep_sleep no update   *)
(* or refresh sends a RAM write or MASTER_ACTIVATION until reset() has     *)
(* been called.                                                            *)
(***************************************************************************)
C10_NoRefreshWhileAsleep ==
    (asleep /\ call.op \in UpdateOps \cup RefreshOps) =>
        /\ CmdAt(log, WRITE_RAM_BW) = {}
        /\ CmdAt(log, WRITE_RAM_RED) = {}
        /\ CmdAt(log, MASTER_ACTIVATION) = {}

(***************************************************************************)
(* C11 (as stated): a full-frame or region update fails with               *)
(* BufferTooSmall whenever the black/white buffer or the red buffer is     *)
(* shorter than the required byte count, whatever the red buffer contains  *)
(* and whatever the mode.                                                  *)
(***************************************************************************)
C11_AsStated ==
    (call.op \in {"update_with_mode", "update_region"}
        /\ (Len(call.black) < Required \/ Len(call.red) < Required)) =>
        result.tag = "BufferTooSmall"

(***************************************************************************)
(* C11 (amended): update_with_mode and update_region fail with             *)
(* BufferTooSmall exactly when the black/white buffer is shorter than the  *)
(* required byte count, or the red buffer contains a non-zero byte and is  *)
(* shorter than it; a red buffer that is empty or all-zero is accepted at  *)
(* any length.                                                             *)
(***************************************************************************)
C11_BuffersValidated ==
    (call.op \in {"update_with_mode", "update_region"}) =>
        (result.tag = "BufferTooSmall" <=>
            \/ Len(call.black) < Required
            \/ ~RedIsBlank /\ Len(call.red) < Required)

\* an all-zero red buffer, not empty and shorter than required, is accepted
C11_Witness ==
    /\ call.op = "update_with_mode"
    /\ Len(call.red) > 0 /\ Len(call.red) < Required /\ RedIsBlank
    /\ Len(call.black) >= Required
    /\ result = Ok
    /\ CmdAt(log, MASTER_ACTIVATION) # {}

(***************************************************************************)
(* C12: a black/white buffer shorter than the required byte count,         *)
(* (w/8)*h for a region and rows*cols/8 for the frame, gives               *)
(* BufferTooSmall with exactly that count as required and the buffer's     *)
(* length as provided; with a long enough black/white buffer and a too     *)
(* short red buffer holding a non-zero byte, provided is the red buffer's  *)
(* length.                                                                 *)
(***************************************************************************)
C12_ExactLengths ==
    (call.op \in {"update_with_mode", "update_region"}) =>
        LET req == IF call.op = "update_region"
                   THEN (call.region.w \div 8) * call.region.h
                   ELSE (config.dimensions.rows * config.dimensions.cols)
                            \div 8
        IN  /\ Len(call.black) < req =>
                   result = [tag |-> "BufferTooSmall", required |-> req,
                             provided |-> Len(call.black)]
            /\ (Len(call.black) >= req /\ ~RedIsBlank
                    /\ Len(call.red) < req) =>
                   result = [tag |-> "BufferTooSmall", required |-> req,
                             provided |-> Len(call.red)]

C12_Witness ==
    /\ call.op = "update_region"
    /\ Len(call.black) > RegionBufferSize(call.region)
    /\ ~RedIsBlank
    /\ result.tag = "BufferTooSmall"
    /\ result.provided = Len(call.red)
    /\ result.provided # Len(call.black)

(***************************************************************************)
(* C13: set_ram_area(x, y, w, h) returns InvalidRamArea carrying x, y, w,  *)
(* h and sends nothing if and only if w = 0, or h = 0, or x + w > cols, or *)
(* y + h > rows, or x or w is not a multiple of 8, the sums taken without  *)
(* 16-bit wrap-around; every other region succeeds.                        *)
(***************************************************************************)
C13_RamAreaValidation ==
    (call.op = "set_ram_area") =>
        LET g == call.region
            invalid == \/ g.w = 0 \/ g.h = 0
                       \/ g.x + g.w > config.dimensions.cols
                       \/ g.y + g.h > config.dimensions.rows
                       \/ g.x % 8 # 0 \/ g.w % 8 # 0
        IN  IF invalid
            THEN /\ result = [tag |-> "InvalidRamArea", x |-> g.x, y |-> g.y,
                              w |-> g.w, h |-> g.h]
                 /\ log = <<>>
            ELSE result = Ok /\ log # <<>>

\* a region whose x + w is beyond 16 bits, and would pass if the sum wrapped
C13_Witness ==
    /\ call.op = "set_ram_area"
    /\ call.region.x + call.region.w >= U16
    /\ (call.region.x + call.region.w) % U16 <= config.dimensions.cols
    /\ call.region.y + call.region.h <= config.dimensions.rows
    /\ call.region.h > 0
    /\ result.tag = "InvalidRamArea"

(***************************************************************************)
(* C14: for a valid region the X-range data is the pair (x, x+w-1) in      *)
(* pixel addressing and (x/8, (x+w-1)/8) in byte addressing, sent start    *)
(* first when ID0 (bit 0 of the data-entry mode) is 1 and end first when   *)
(* ID0 is 0.                                                               *)
(***************************************************************************)
C14_XRange ==
    (call.op = "set_ram_area" /\ result = Ok) =>
        LET g == call.region
            last == g.x + g.w - 1
            raw == IF config.ram_x_addressing = "Pixels"
                   THEN << g.x, last >>
                   ELSE << g.x \div 8, last \div 8 >>
            id0 == config.data_entry_mode % 2 = 1
            s == IF id0 THEN raw[1] ELSE raw[2]
            e == IF id0 THEN raw[2] ELSE raw[1]
        IN  Payloads(log, SET_RAM_X_RANGE) =
                { << s % 256, s \div 256, e % 256, e \div 256 >> }

\* byte addressing with ID0 = 0: columns 256..479 are bytes 32..59, sent
\* end first
C14_Witness ==
    /\ call.op = "set_ram_area" /\ result = Ok
    /\ config.ram_x_addressing = "Bytes"
    /\ config.data_entry_mode % 2 = 0
    /\ call.region.x = 256 /\ call.region.w = 224
    /\ Payloads(log, SET_RAM_X_RANGE) = { <<59, 0, 32, 0>> }

(***************************************************************************)
(* C15: for a valid region the Y-range data is the pair (base, base+h-1)   *)
(* with base = rows - y - h when Y is inverted and base = y otherwise,     *)
(* sent in that order when ID1 (bit 1 of the data-entry mode) is 1 and     *)
(* swapped when ID1 is 0.                                                  *)
(***************************************************************************)
C15_YRange ==
    (call.op = "set_ram_area" /\ result = Ok) =>
        LET g == call.region
            base == IF config.ram_y_inverted
                    THEN config.dimensions.rows - g.y - g.h
                    ELSE g.y
            id1 == (config.data_entry_mode \div 2) % 2 = 1
            s == IF id1 THEN base ELSE base + g.h - 1
            e == IF id1 THEN base + g.h - 1 ELSE base
        IN  Payloads(log, SET_RAM_Y_RANGE) =
                { << s % 256, s \div 256, e % 256, e \div 256 >> }

\* inverted Y with ID1 = 0: rows 1..255 of 480 are 224..478, sent end first
C15_Witness ==
    /\ call.op = "set_ram_area" /\ result = Ok
    /\ config.ram_y_inverted
    /\ (config.data_entry_mode \div 2) % 2 = 0
    /\ call.region.y = 1 /\ call.region.h = 255
    /\ Payloads(log, SET_RAM_Y_RANGE) = { <<222, 1, 224, 0>> }

(***************************************************************************)
(* C16: a successful window programming is exactly five command/data       *)
(* pairs, in order DATA_ENTRY_MODE (the configured mode), SET_RAM_X_RANGE  *)
(* (4 bytes), SET_RAM_Y_RANGE (4 bytes), SET_RAM_X_COUNTER (2 bytes, the   *)
(* X-range start as sent), SET_RAM_Y_COUNTER (2 bytes, the Y-range start   *)
(* as sent), every 16-bit value encoded low byte first.                    *)
(***************************************************************************)
C16_WindowSequence ==
    (call.op = "set_ram_area" /\ result = Ok) =>
        LET g == call.region
            xlast == g.x + g.w - 1
            xs == IF config.ram_x_addressing = "Pixels"
                  THEN {g.x, xlast} ELSE {g.x \div 8, xlast \div 8}
            ybase == IF config.ram_y_inverted
                     THEN config.dimensions.rows - g.y - g.h ELSE g.y
            ys == {ybase, ybase + g.h - 1}
            Dec(d, i) == d[i] + 256 * d[i + 1]
        IN  /\ Len(log) = 10
            /\ log[1] = Cmd(DATA_ENTRY_MODE)
            /\ log[2] = Data(<<config.data_entry_mode>>)
            /\ log[3] = Cmd(SET_RAM_X_RANGE)
            /\ log[4].kind = "data" /\ Len(log[4].data) = 4
            /\ log[5] = Cmd(SET_RAM_Y_RANGE)
            /\ log[6].kind = "data" /\ Len(log[6].data) = 4
            /\ log[7] = Cmd(SET_RAM_X_COUNTER)
            /\ log[8] = Data(SubSeq(log[4].data, 1, 2))
            /\ log[9] = Cmd(SET_RAM_Y_COUNTER)
            /\ log[10] = Data(SubSeq(log[6].data, 1, 2))
            /\ \A k \in {4, 6} : \A i \in 1..4 : log[k].data[i] \in 0..255
            /\ {Dec(log[4].data, 1), Dec(log[4].data, 3)} = xs
            /\ {Dec(log[6].data, 1), Dec(log[6].data, 3)} = ys

\* the full panel with ID0 = 0 in pixel addressing: the X counter is the
\* range start as sent, column 479 = 0x01DF
C16_Witness ==
    /\ call.op = "set_ram_area" /\ result = Ok
    /\ config.ram_x_addressing = "Pixels"
    /\ config.data_entry_mode % 2 = 0
    /\ call.region.x = 0 /\ call.region.w = 480
    /\ Len(log) = 10
    /\ log[8] = Data(<<223, 1>>)

(***************************************************************************)
(* C17: update, update_with_mode and update_region send no WRITE_LUT in    *)
(* Full mode and, in Partial or Fast mode, one WRITE_LUT carrying the      *)
(* built-in table of the mode, before the RAM window is programmed; the    *)
(* _no_lut entry points never send WRITE_LUT; the _with_custom_lut entry   *)
(* points send one WRITE_LUT carrying the caller's table and never a       *)
(* built-in one.  (One: exactly one when the call returns Ok, and never    *)
(* more than one.)                                                         *)
(***************************************************************************)
C17_WaveformLoading ==
    LET at == CmdAt(log, WRITE_LUT)
        tables == Payloads(log, WRITE_LUT)
        first_window ==
            \A i \in at : \A j \in CmdAt(log, DATA_ENTRY_MODE) : i < j
        One(table) ==
            /\ Cardinality(at) <= 1
            /\ tables \subseteq {table}
            /\ result = Ok => (Cardinality(at) = 1 /\ first_window)
    IN  /\ call.op \in {"update", "update_with_mode", "update_region"} =>
               CASE call.mode = "Full" -> at = {}
                 [] call.mode = "Partial" -> One(LUT_PARTIAL)
                 [] call.mode = "Fast" -> One(LUT_FAST)
        /\ call.op \in {"update_with_mode_no_lut", "update_region_no_lut"} =>
               at = {}
        /\ call.op \in {"update_with_custom_lut",
                        "update_region_with_custom_lut"} =>
               /\ One(call.lut)
               /\ tables \cap {LUT_PARTIAL, LUT_FAST} = {}

C17_Witness ==
    /\ call.op = "update_region" /\ call.mode = "Fast" /\ result = Ok
    /\ Payloads(log, WRITE_LUT) = {LUT_FAST}
    /\ log[1] = Cmd(WRITE_LUT)
    /\ Cardinality(CmdAt(log, DATA_ENTRY_MODE)) = 2

(***************************************************************************)
(* C18: load_lut succeeds if and only if the table has exactly 112 bytes,  *)
(* and then sends WRITE_LUT followed by the table verbatim; for any other  *)
(* length it returns InvalidLutLength with expected = 112 and provided =   *)
(* the length, having sent nothing.                                        *)
(***************************************************************************)
C18_LoadLut ==
    (call.op = "load_lut") =>
        IF Len(call.lut) = 112
        THEN /\ result = Ok
             /\ log = << Cmd(WRITE_LUT), Data(call.lut) >>
        ELSE /\ result = [tag |-> "InvalidLutLength", expected |-> 112,
                          provided |-> Len(call.lut)]
             /\ log = <<>>

\* the 200-byte table of test_load_lut_too_long_returns_error
C18_Witness ==
    /\ call.op = "load_lut"
    /\ Len(call.lut) = 200
    /\ result.tag = "InvalidLutLength" /\ result.provided = 200

(***************************************************************************)
(* C19: load_lut_with_voltages accepts only a table of exactly 105 bytes:  *)
(* for any other length, 112 included, it returns InvalidLutShortLength    *)
(* with expected = 105 and the provided length, having sent nothing; on    *)
(* success it sends WRITE_LUT with the table, GATE_VOLTAGE with one byte,  *)
(* SOURCE_VOLTAGE with three bytes and WRITE_VCOM with one byte, in that   *)
(* order.                                                                  *)
(***************************************************************************)
C19_LoadLutWithVoltages ==
    (call.op = "load_lut_with_voltages") =>
        IF Len(call.lut) = 105
        THEN /\ result = Ok
             /\ log = << Cmd(WRITE_LUT), Data(call.lut),
                         Cmd(GATE_VOLTAGE), Data(<<call.gate_voltage>>),
                         Cmd(SOURCE_VOLTAGE), Data(call.source_voltage),
                         Cmd(WRITE_VCOM), Data(<<call.vcom>>) >>
             /\ Len(call.source_voltage) = 3
        ELSE /\ result = [tag |-> "InvalidLutShortLength", expected |-> 105,
                          provided |-> Len(call.lut)]
             /\ log = <<>>

C19_Witness ==
    /\ call.op = "load_lut_with_voltages"
    /\ Len(call.lut) = 105 /\ result = Ok
    /\ Len(log) = 8
    /\ log[4] = Data(<<23>>) /\ log[8] = Data(<<8>>)

C21_TransportFailureFatal ==
    (call.op # "new" /\ call.fail > 0 /\ log[call.fail].kind # "reset") =>
        LET ctx == Start(call.on_entry, 0)
            clean ==
                CASE call.op = "reset" -> reset(ctx, config)
                  [] call.op = "update_with_mode" ->
                         update_with_mode_internal(ctx, config, call.black,
                             call.red, call.mode, TRUE)
                  [] call.op = "update_region" ->
                         update_region_internal(ctx, config,
                             [region |-> call.region,
                              black_buffer |-> call.black,
                              red_buffer |-> call.red,
                              mode |-> call.mode], TRUE)
                  [] call.op \in RefreshOps ->
                         refresh_with_mode(ctx, config, call.mode, FALSE,
                                           FALSE)
                  [] call.op = "deep_sleep" ->
                         deep_sleep(ctx, call.sleep_mode)
        IN  /\ result = ErrInterface
            /\ Len(log) = call.fail
            /\ log = SubSeq(clean.log, 1, call.fail)
            /\ (call.fail > 1 /\ log[call.fail] = Wait
                   /\ log[call.fail - 1] = Cmd(MASTER_ACTIVATION)
                   /\ call.op \in UpdateOps) =>
                   \A i \in CmdAt(log, WRITE_RAM_RED) :
                       \A t \in CmdAt(log, MASTER_ACTIVATION) : i < t

\* the ready-wait of a single-buffer fast update fails: the fault-free call
\* would go on to write the red plane
C21_Witness ==
    /\ call.op = "update_with_mode" /\ call.mode = "Fast" /\ RedIsBlank
    /\ call.fail > 1 /\ Len(log) = call.fail
    /\ log[call.fail] = Wait
    /\ log[call.fail - 1] = Cmd(MASTER_ACTIVATION)
    /\ result = ErrInterface
    /\ CmdAt(log, WRITE_RAM_RED) = {}

(***************************************************************************)
(* C22 (as stated): the ready-wait always terminates, for every timeout    *)
(* set_busy_timeout accepts, 0 included: a busy_wait that has been entered *)
(* comes to an end.                                                        *)
(***************************************************************************)
C22_AsStated == (iface.pc = "poll") ~> (iface.pc \in {"done", "panicked"})

(***************************************************************************)
(* C22 (amended): for every timeout greater than 0 the ready-wait          *)
(* terminates: it returns Ok at the first poll that reads not-busy, a pin  *)
(* error at the first poll that fails, and Timeout when the pin has read   *)
(* busy timeout_ms times, never polling more often than that; with a       *)
(* timeout of 0 the timeout is disabled and it never returns Timeout.      *)
(***************************************************************************)
C22_BusyWaitTerminates ==
    /\ [][(iface.pc = "poll" /\ iface'.pc = "done") =>
            /\ iface'.ret = "Ok" <=>
                   (iface'.pin \in {"high", "low"}
                    /\ ~IsBusy(iface.busy_active_high, iface'.pin))
            /\ iface'.ret = "Pin" <=> iface'.pin = "err"
            /\ iface'.ret = "Timeout" <=>
                   (IsBusy(iface.busy_active_high, iface'.pin)
                    /\ iface.busy_timeout_ms > 0
                    /\ iface.iterations + 1 = iface.busy_timeout_ms)]_vars
    /\ []((iface.pc = "poll" /\ iface.busy_timeout_ms > 0) =>
            iface.iterations < iface.busy_timeout_ms)
    /\ ((iface.pc = "poll" /\ iface.busy_timeout_ms > 0)
            ~> (iface.pc = "done"))

\* a wait that timed out on an active-low busy pin
C22_Witness ==
    /\ iface.pc = "done" /\ iface.ret = "Timeout"
    /\ iface.busy_timeout_ms = 2
    /\ ~iface.busy_active_high /\ iface.pin = "low"

(***************************************************************************)
(* C23: for every panel and each rotation, apply_rotation maps every       *)
(* in-bounds logical pixel to a byte index below width*height/8 and a mask *)
(* with exactly one bit set, and no other in-bounds pixel to the same      *)
(* index and mask.                                                         *)
(***************************************************************************)
C23_RotationInBoundsInjective ==
    (call.op = "apply_rotation") =>
        /\ result.index >= 0
        /\ result.index < (call.width * call.height) \div 8
        /\ result.bit \in {1, 2, 4, 8, 16, 32, 64, 128}
        /\ \A q \in InBounds(call.width, call.height, call.rotation) :
               q # <<call.x, call.y>> =>
                   apply_rotation(q[1], q[2], call.width, call.height,
                                  call.rotation) # result

\* the last logical pixel of a panel that is not square, turned by 180
C23_Witness ==
    /\ call.op = "apply_rotation" /\ call.rotation = "Rotate180"
    /\ call.width = 16 /\ call.height = 3
    /\ call.x = 0 /\ call.y = 0
    /\ result = [index |-> 5, bit |-> 1]

(***************************************************************************)
(* C24: apply_rotation is, for every in-bounds pixel: for Rotate0          *)
(* (x/8 + (width/8)*y, 0x80 >> x mod 8); for Rotate90                      *)
(* ((width-1-y)/8 + (width/8)*x, 0x01 << y mod 8); for Rotate180           *)
(* ((width/8)*height - 1 - (x/8 + (width/8)*y), 0x01 << x mod 8); for      *)
(* Rotate270 (y/8 + (height-1-x)*(width/8), 0x80 >> y mod 8); with the     *)
(* six values of the documentation and the tests.                          *)
(***************************************************************************)
C24_RotationReference ==
    (call.op = "apply_rotation") =>
        LET x == call.x
            y == call.y
            w8 == call.width \div 8
            Is(xx, yy, ww, hh, rr) ==
                /\ call.x = xx /\ call.y = yy /\ call.width = ww
                /\ call.height = hh /\ call.rotation = rr
        IN  /\ call.rotation = "Rotate0" =>
                   /\ result.index = x \div 8 + w8 * y
                   /\ result.bit * (2 ^ (x % 8)) = 128
            /\ call.rotation = "Rotate90" =>
                   /\ result.index = (call.width - 1 - y) \div 8 + w8 * x
                   /\ result.bit = 2 ^ (y % 8)
            /\ call.rotation = "Rotate180" =>
                   /\ result.index =
                          w8 * call.height - 1 - (x \div 8 + w8 * y)
                   /\ result.bit = 2 ^ (x % 8)
            /\ call.rotation = "Rotate270" =>
                   /\ result.index = y \div 8 + (call.height - 1 - x) * w8
                   /\ result.bit * (2 ^ (y % 8)) = 128
            /\ Is(0, 0, 8, 1, "Rotate0") => result = [index |-> 0, bit |-> 128]
            /\ Is(7, 0, 8, 1, "Rotate0") => result = [index |-> 0, bit |-> 1]
            /\ Is(0, 1, 8, 2, "Rotate0") => result = [index |-> 1, bit |-> 128]
            /\ Is(0, 0, 16, 16, "Rotate90") =>
                   result = [index |-> 1, bit |-> 1]
            /\ Is(0, 0, 16, 16, "Rotate270") =>
                   result = [index |-> 30, bit |-> 128]
            /\ Is(7, 0, 8, 1, "Rotate180") =>
                   result = [index |-> 0, bit |-> 128]

\* test_rotate270
C24_Witness ==
    /\ call.op = "apply_rotation" /\ call.rotation = "Rotate270"
    /\ call.width = 16 /\ call.height = 16
    /\ call.x = 0 /\ call.y = 0
    /\ result = [index |-> 30, bit |-> 128]

(***************************************************************************)
(* C25: Dimensions::new(rows, cols) succeeds if and only if                *)
(* 1 <= rows <= 680, 8 <= cols <= 960 and cols is a multiple of 8, and     *)
(* otherwise returns InvalidDimensions carrying rows and cols; the         *)
(* buffer_size of accepted dimensions is rows*cols/8 with no remainder.    *)
(***************************************************************************)
C25_DimensionsValidated ==
    (call.op = "dimensions_new") =>
        IF /\ 1 <= call.rows /\ call.rows <= 680
           /\ 8 <= call.cols /\ call.cols <= 960
           /\ call.cols % 8 = 0
        THEN /\ result = [tag |-> "Ok",
                          dims |-> [rows |-> call.rows, cols |-> call.cols]]
             /\ 8 * DimBufferSize(result.dims) = call.rows * call.cols
        ELSE result = [tag |-> "InvalidDimensions", rows |-> call.rows,
                       cols |-> call.cols]

\* the largest panel: 680 x 960, 81600 bytes
C25_Witness ==
    /\ call.op = "dimensions_new"
    /\ call.rows = 680 /\ call.cols = 960
    /\ result.tag = "Ok"
    /\ DimBufferSize(result.dims) = 81600

(***************************************************************************)
(* C26: GraphicDisplay::try_new returns BufferTooSmall, with required the  *)
(* physical rows*cols/8 and provided the length of the short buffer, if    *)
(* and only if the black/white or the red buffer is shorter than that, in  *)
(* every rotation; GraphicDisplay::new panics in exactly those cases.      *)
(***************************************************************************)
C26_GraphicBuffersValidated ==
    LET req == (config.dimensions.rows * config.dimensions.cols) \div 8
        short == Len(call.black) < req \/ Len(call.red) < req
    IN  /\ call.op = "try_new" =>
               IF short
               THEN result =
                        [tag |-> "BufferTooSmall", required |-> req,
                         provided |-> IF Len(call.black) < req
                                      THEN Len(call.black)
                                      ELSE Len(call.red)]
               ELSE result = Ok
        /\ call.op = "graphic_new" =>
               /\ result = (IF short THEN Panic ELSE Ok)
               /\ result = Panic <=>
                      try_new(config, call.black, call.red).tag
                          = "BufferTooSmall"

\* a turned display, a long enough black/white buffer and a short all-zero
\* red buffer
C26_Witness ==
    /\ call.op = "try_new" /\ config.rotation = "Rotate90"
    /\ Len(call.black) >= DimBufferSize(config.dimensions)
    /\ Len(call.red) > 0 /\ RedIsBlank
    /\ result.tag = "BufferTooSmall"
    /\ result.provided = Len(call.red)

(***************************************************************************)
(* C27: in every successful update the interface sees, in this order, the  *)
(* optional WRITE_LUT, the five window register writes, WRITE_RAM_BW with  *)
(* the black/white data exactly once, the pre-refresh WRITE_RAM_RED if     *)
(* any, DISPLAY_UPDATE_CTRL1, DISPLAY_UPDATE_CTRL2, MASTER_ACTIVATION, a   *)
(* ready-wait, and then only the optional post-refresh resync; in every    *)
(* update call MASTER_ACTIVATION comes after the black/white plane was     *)
(* written, and the ready-wait follows it directly.                        *)
(***************************************************************************)
C27_UpdateOrder ==
    /\ (call.op \in UpdateOps /\ result = Ok) =>
           /\ Steps(log) \in
                  { lut \o WindowWrites \o <<WRITE_RAM_BW>> \o red
                        \o <<DISPLAY_UPDATE_CTRL1, DISPLAY_UPDATE_CTRL2,
                              MASTER_ACTIVATION, -1>> \o post :
                      lut \in {<<>>, <<WRITE_LUT>>},
                      red \in {<<>>, <<WRITE_RAM_RED>>},
                      post \in {<<>>, WindowWrites \o <<WRITE_RAM_RED>>} }
           /\ \A i \in 1..Len(log) :
                  (log[i].kind = "cmd" /\ log[i].byte # MASTER_ACTIVATION)
                      => (i < Len(log) /\ log[i + 1].kind = "data")
           /\ Payloads(log, WRITE_RAM_BW) = { SubSeq(call.black, 1, Required) }
    /\ call.op \in UpdateOps =>
           \A t \in CmdAt(log, MASTER_ACTIVATION) :
               /\ \E i \in CmdAt(log, WRITE_RAM_BW) :
                      i + 1 < t /\ log[i + 1].kind = "data"
               /\ t < Len(log) => log[t + 1] = Wait

\* a region update with a caller's table in Fast mode and no red buffer: every
\* optional step but the pre-refresh red write is there
C27_Witness ==
    /\ call.op = "update_region_with_custom_lut" /\ result = Ok
    /\ call.mode = "Fast" /\ call.red = <<>>
    /\ Len(Steps(log)) = 17
    /\ Steps(log)[1] = WRITE_LUT /\ Steps(log)[17] = WRITE_RAM_RED

(***************************************************************************)
(* C28: with the chip's two RAM planes written through the programmed      *)
(* window, when a successful update whose red buffer was empty or all-zero *)
(* returns (Full, Partial or Fast, whatever the planes held before), every *)
(* byte of the updated window was written in both planes and the red       *)
(* plane equals the black/white plane over that window.                    *)
(***************************************************************************)
C28_RedMirrorsBW ==
    (call.op \in UpdateOps /\ result = Ok /\ RedIsBlank) =>
        LET chip == ChipAfter
            win == ChipWindow(chip, ChipStep(config))
        IN  /\ win # {}
            /\ \A a \in win : /\ chip.bw[a] # Unwritten
                               /\ chip.red[a] = chip.bw[a]

\* a Fast update of the bottom row with an all-zero red buffer: that row
\* holds the black/white byte in both planes, the other row was not touched
C28_Witness ==
    /\ call.op = "update_region" /\ result = Ok /\ call.mode = "Fast"
    /\ Len(call.red) > 0 /\ RedIsBlank
    /\ call.region.y = PanelDims.rows - 1
    /\ ChipWindow(ChipAfter, ChipStep(config)) = { <<0, PanelDims.rows - 1>> }
    /\ ChipAfter.red[<<0, PanelDims.rows - 1>>] = call.black[1]
    /\ ChipAfter.bw[<<0, PanelDims.rows - 1>>] = call.black[1]
    /\ ChipAfter.red[<<0, 0>>] = Unwritten

(***************************************************************************)
(* C29: in a successful Fast update without explicit red, what follows the *)
(* ready-wait is the five window register writes with the same data as     *)
(* before the refresh, then WRITE_RAM_RED with exactly the bytes sent      *)
(* after WRITE_RAM_BW in the same call; in every other successful update   *)
(* nothing follows the ready-wait.                                         *)
(***************************************************************************)
C29_PostRefreshResync ==
    (call.op \in UpdateOps /\ result = Ok) =>
        \E w \in WaitAt(log), b \in CmdAt(log, WRITE_RAM_BW) :
            LET after == SubSeq(log, w + 1, Len(log))
                window == SubSeq(log, b - 10, b - 1)
                explicit == \E i \in 1..Len(call.red) : call.red[i] # 0
            IN  /\ WaitAt(log) = {w} /\ CmdAt(log, WRITE_RAM_BW) = {b}
                /\ IF call.mode = "Fast" /\ ~explicit
                   THEN /\ b > 10 /\ b < w
                        /\ [k \in 1..5 |-> window[2 * k - 1]]
                               = [k \in 1..5 |-> Cmd(WindowWrites[k])]
                        /\ \A k \in 1..5 : window[2 * k].kind = "data"
                        /\ after = window \o <<Cmd(WRITE_RAM_RED), log[b + 1]>>
                        /\ log[b + 1].kind = "data"
                   ELSE after = <<>>

\* a Fast update of the bottom row without red: twelve calls after the wait,
\* the last one carrying the black/white byte
C29_Witness ==
    /\ call.op = "update_region" /\ result = Ok /\ call.mode = "Fast"
    /\ RedIsBlank /\ call.region.y = PanelDims.rows - 1
    /\ \E w \in WaitAt(log) :
           /\ Len(log) = w + 12
           /\ log[w + 11] = Cmd(WRITE_RAM_RED)
           /\ log[w + 12] = Data(<<call.black[1]>>)

C31_PowerOffPattern ==
    (call.op = "deep_sleep" /\ call.on_entry) =>
        \A i \in CmdAt(log, DISPLAY_UPDATE_CTRL2) :
            i < Len(log) =>
                log[i + 1] = Data(<<config.display_update_power_off>>)

(***************************************************************************)
(* C32: in every rotation and on every panel, a pixel given to draw_iter   *)
(* whose coordinates lie inside size() (the rotated dimensions) is written *)
(* into both buffers at apply_rotation(x, y, cols, rows, rotation): after  *)
(* the call the bit there holds the pixel's colour.                        *)
(***************************************************************************)
C32_InsidePixelsWritten ==
    (call.op = "draw_iter" /\ result = Ok) =>
        LET px == call.pixels[Len(call.pixels)]
            inside ==
                /\ 0 <= px.x /\ 0 <= px.y
                /\ px.x < (IF config.rotation \in {"Rotate90", "Rotate270"}
                            THEN config.dimensions.rows
                            ELSE config.dimensions.cols)
                /\ px.y < (IF config.rotation \in {"Rotate90", "Rotate270"}
                            THEN config.dimensions.cols
                            ELSE config.dimensions.rows)
            p == apply_rotation(px.x, px.y, config.dimensions.cols,
                                config.dimensions.rows, config.rotation)
            Bit(buf) == (buf[p.index + 1] \div p.bit) % 2
        IN  inside =>
                /\ Bit(graphic.black_buffer)
                       = (IF px.color = "Black" THEN 0 ELSE 1)
                /\ Bit(graphic.red_buffer)
                       = (IF px.color = "Red" THEN 1 ELSE 0)

(***************************************************************************)
(* C33: in every successful update the data sent after WRITE_RAM_BW and    *)
(* after each WRITE_RAM_RED has exactly the required length (rows*cols/8   *)
(* for a full frame, (w/8)*h for a region) and is the first that many      *)
(* bytes of the caller's buffer (the red buffer when it is explicit, the   *)
(* black/white buffer otherwise), also when the buffer is longer.          *)
(***************************************************************************)
C33_PayloadIsPrefix ==
    (call.op \in UpdateOps /\ result = Ok) =>
        LET n == IF call.op \in RegionOps
                 THEN (call.region.w \div 8) * call.region.h
                 ELSE (config.dimensions.rows * config.dimensions.cols) \div 8
            explicit == \E i \in 1..Len(call.red) : call.red[i] # 0
            First(buf) == [i \in 1..n |-> buf[i]]
        IN  /\ CmdAt(log, WRITE_RAM_BW) # {}
            /\ \A i \in CmdAt(log, WRITE_RAM_BW) :
                   /\ log[i + 1].kind = "data"
                   /\ Len(log[i + 1].data) = n
                   /\ log[i + 1].data = First(call.black)
            /\ \A i \in CmdAt(log, WRITE_RAM_RED) :
                   /\ log[i + 1].kind = "data"
                   /\ Len(log[i + 1].data) = n
                   /\ log[i + 1].data =
                          (IF explicit THEN First(call.red)
                           ELSE First(call.black))

\* a full-frame update with both buffers longer than the frame and a red
\* pixel in the last byte, which is not sent
C33_Witness ==
    /\ call.op = "update_with_mode" /\ result = Ok
    /\ Len(call.black) > DimBufferSize(config.dimensions)
    /\ Len(call.red) > DimBufferSize(config.dimensions)
    /\ call.red[Len(call.red)] # 0
    /\ \E i \in CmdAt(log, WRITE_RAM_RED) :
           log[i + 1].data = Take(call.red, DimBufferSize(config.dimensions))

(***************************************************************************)
(* C34: on a panel Dimensions::new accepts, for every window set_ram_area  *)
(* accepts and in every wiring, x + w - 1, rows - y - h and base + h - 1   *)
(* stay within 0..65535, every X value sent is at most cols - 1 (pixel     *)
(* addressing) or cols/8 - 1 (byte addressing), and every Y value sent is  *)
(* at most rows - 1.                                                       *)
(***************************************************************************)
C34_WindowInRange ==
    (/\ call.op = "set_ram_area" /\ result = Ok
     /\ Dimensions_new(config.dimensions.rows, config.dimensions.cols).tag = "Ok") =>
        LET g == call.region
            rows == config.dimensions.rows
            cols == config.dimensions.cols
            base == IF config.ram_y_inverted THEN rows - g.y - g.h ELSE g.y
            InU16(n) == 0 <= n /\ n < U16
            Sent(c) == UNION { { d[k] + 256 * d[k + 1] :
                                   k \in {1, 3} \cap 1..(Len(d) - 1) } :
                               d \in Payloads(log, c) }
            X == Sent(SET_RAM_X_RANGE) \cup Sent(SET_RAM_X_COUNTER)
            Y == Sent(SET_RAM_Y_RANGE) \cup Sent(SET_RAM_Y_COUNTER)
        IN  /\ InU16(g.x + g.w) /\ InU16(g.x + g.w - 1)
            /\ InU16(rows - g.y) /\ InU16(rows - g.y - g.h)
            /\ InU16(base + g.h) /\ InU16(base + g.h - 1)
            /\ X # {} /\ Y # {}
            /\ \A v \in X :
                   v <= (IF config.ram_x_addressing = "Pixels"
                         THEN cols - 1 ELSE (cols \div 8) - 1)
            /\ \A v \in Y : v <= rows - 1

\* the last row and the last byte column of the largest panel, Y inverted
\* and X addressed in bytes
C34_Witness ==
    /\ call.op = "set_ram_area" /\ result = Ok
    /\ config.dimensions = [rows |-> MAX_GATE_OUTPUTS,
                            cols |-> MAX_SOURCE_OUTPUTS]
    /\ config.ram_y_inverted /\ config.ram_x_addressing = "Bytes"
    /\ call.region = Region(MAX_SOURCE_OUTPUTS - 8, MAX_GATE_OUTPUTS - 1, 8, 1)
    /\ Payloads(log, SET_RAM_X_COUNTER) =
           { << ((MAX_SOURCE_OUTPUTS \div 8) - 1) % 256,
                ((MAX_SOURCE_OUTPUTS \div 8) - 1) \div 256 >> }

(***************************************************************************)
(* C35: whenever a successful update treats the red buffer as explicit     *)
(* (red data written before the trigger and the refresh made with          *)
(* CTRL1_NORMAL), the red payload it sent, the first required-size bytes   *)
(* of the red buffer, has a non-zero byte.                                 *)
(***************************************************************************)
C35_ExplicitRedIsSent ==
    (/\ call.op \in UpdateOps /\ result = Ok
     /\ RedBeforeTrigger # {}
     /\ Payloads(log, DISPLAY_UPDATE_CTRL1) = { <<CTRL1_NORMAL>> }) =>
        \A i \in RedBeforeTrigger :
            LET sent == DataAfter(log, i)
            IN  \E k \in 1..Len(sent) : sent[k] # 0

(***************************************************************************)
(* C36: with a timeout T > 0, a turn of busy_wait's loop returns Pin when  *)
(* the pin read fails, returns Ok when the pin reads not busy (busy is     *)
(* high when busy_active_high, low otherwise) with no delay counted after  *)
(* it, and otherwise delays once and counts the poll: the T-th busy poll   *)
(* in a row returns Timeout, an earlier one polls again.                   *)
(***************************************************************************)
C36_BusyWaitReturns ==
    [][ (iface.pc = "poll" /\ iface.busy_timeout_ms > 0) =>
          LET T == iface.busy_timeout_ms
              level == iface'.pin
              busy == level = (IF iface.busy_active_high THEN "high"
                               ELSE "low")
              polls == iface.iterations + 1
          IN  /\ iface.iterations < T
              /\ iface'.busy_timeout_ms = T
              /\ iface'.busy_active_high = iface.busy_active_high
              /\ level = "err" =>
                     iface'.pc = "done" /\ iface'.ret = "Pin"
              /\ (level # "err" /\ ~busy) =>
                     iface'.pc = "done" /\ iface'.ret = "Ok"
              /\ (busy /\ polls < T) =>
                     /\ iface'.pc = "poll" /\ iface'.ret = "none"
                     /\ iface'.iterations = polls
              /\ (busy /\ polls = T) =>
                     iface'.pc = "done" /\ iface'.ret = "Timeout" ]_vars

\* a wait on an active-low busy pin that timed out at the second poll
C36_Witness ==
    /\ iface.pc = "done" /\ iface.ret = "Timeout"
    /\ iface.busy_timeout_ms = 2
    /\ ~iface.busy_active_high /\ iface.pin = "low"

(***************************************************************************)
(* C37: a successful reset() makes exactly these interface calls, in this  *)
(* order: the hardware reset, SOFT_RESET, a ready-wait, TEMP_SENSOR_CONTROL*)
(* BOOSTER_SOFT_START with its 5 bytes, DRIVER_OUTPUT_CONTROL with         *)
(* ((rows-1) mod 256, (rows-1) div 256, gate_scanning), BORDER_WAVEFORM,   *)
(* WRITE_VCOM, AUTO_WRITE_BW_RAM with the black/white fill value and a     *)
(* ready-wait, AUTO_WRITE_RED_RAM with the red fill value and a ready-wait;*)
(* it sends no window, RAM-write or activation command.                    *)
(***************************************************************************)
C37_ResetSequence ==
    (call.op = "reset" /\ result = Ok) =>
        LET rows == config.dimensions.rows
        IN  /\ log = << HwReset, Cmd(SOFT_RESET), Wait,
                        Cmd(TEMP_SENSOR_CONTROL),
                        Data(<<config.temp_sensor_control>>),
                        Cmd(BOOSTER_SOFT_START),
                        Data(config.booster_soft_start),
                        Cmd(DRIVER_OUTPUT_CONTROL),
                        Data(<< (rows - 1) % 256, (rows - 1) \div 256,
                                config.gate_scanning >>),
                        Cmd(BORDER_WAVEFORM), Data(<<config.border_waveform>>),
                        Cmd(WRITE_VCOM), Data(<<config.vcom>>),
                        Cmd(AUTO_WRITE_BW_RAM), Data(<<config.clear_bw_value>>),
                        Wait,
                        Cmd(AUTO_WRITE_RED_RAM),
                        Data(<<config.clear_red_value>>),
                        Wait >>
            /\ Len(config.booster_soft_start) = 5
            /\ \A c \in { DATA_ENTRY_MODE, SET_RAM_X_RANGE, SET_RAM_Y_RANGE,
                           SET_RAM_X_COUNTER, SET_RAM_Y_COUNTER, WRITE_RAM_BW,
                           WRITE_RAM_RED, DISPLAY_UPDATE_CTRL1,
                           DISPLAY_UPDATE_CTRL2, MASTER_ACTIVATION } :
                   CmdAt(log, c) = {}

\* a reset of the largest panel, whose row count takes both bytes
C37_Witness ==
    /\ call.op = "reset" /\ result = Ok
    /\ config.dimensions.rows = MAX_GATE_OUTPUTS
    /\ Payloads(log, DRIVER_OUTPUT_CONTROL)
           = { << (MAX_GATE_OUTPUTS - 1) % 256, (MAX_GATE_OUTPUTS - 1) \div 256,
                  config.gate_scanning >> }
    /\ Len(Steps(log)) = 12

(***************************************************************************)
(* C38: drawing a pixel that lies inside size() changes, in each buffer,   *)
(* at most the bit apply_rotation gives for it; that bit becomes (0, 0) in *)
(* (black/white, red) for Black, (1, 0) for White and (1, 1) for Red, the  *)
(* bits of the bytes clear(color) writes; drawing colour c on buffers just *)
(* cleared to c changes nothing; and drawing the same pixel twice leaves   *)
(* the buffers as drawing it once with the last colour does.               *)
(***************************************************************************)
C38_SetPixelEffect ==
    (/\ call.op = "draw_iter" /\ result = Ok
     /\ \A k \in 1..Len(call.pixels) :
            /\ call.pixels[k].x = call.pixels[1].x
            /\ call.pixels[k].y = call.pixels[1].y) =>
        LET px == call.pixels[Len(call.pixels)]
            swap == config.rotation \in {"Rotate90", "Rotate270"}
            inside ==
                /\ 0 <= px.x /\ 0 <= px.y
                /\ px.x < (IF swap THEN config.dimensions.rows
                            ELSE config.dimensions.cols)
                /\ px.y < (IF swap THEN config.dimensions.cols
                            ELSE config.dimensions.rows)
            p == apply_rotation(px.x, px.y, config.dimensions.cols,
                                config.dimensions.rows, config.rotation)
            Bit(byte) == (byte \div p.bit) % 2
            Rest(byte) == byte - Bit(byte) * p.bit
            OnlyBit(before, after) ==
                /\ Len(after) = Len(before)
                /\ \A i \in 1..Len(before) :
                       IF i = p.index + 1
                       THEN Rest(after[i]) = Rest(before[i])
                       ELSE after[i] = before[i]
            bw == CASE px.color = "Black" -> 0
                    [] px.color = "White" -> 1
                    [] px.color = "Red" -> 1
            red == CASE px.color = "Black" -> 0
                     [] px.color = "White" -> 0
                     [] px.color = "Red" -> 1
            Uniform(buf, bit) == \A i \in 1..Len(buf) : buf[i] = 255 * bit
            once == draw_iter([black_buffer |-> call.black,
                               red_buffer |-> call.red, res |-> Ok],
                              config, <<px>>, 1)
        IN  inside =>
                /\ OnlyBit(call.black, graphic.black_buffer)
                /\ OnlyBit(call.red, graphic.red_buffer)
                /\ Bit(graphic.black_buffer[p.index + 1]) = bw
                /\ Bit(graphic.red_buffer[p.index + 1]) = red
                /\ bw_byte(px.color) = 255 * bw
                /\ red_byte(px.color) = 255 * red
                /\ (Uniform(call.black, bw) /\ Uniform(call.red, red)) =>
                       /\ graphic.black_buffer = call.black
                       /\ graphic.red_buffer = call.red
                /\ graphic.black_buffer = once.black_buffer
                /\ graphic.red_buffer = once.red_buffer

(***************************************************************************)
(* C39: on every panel and in every rotation, draw_iter ends without an    *)
(* out-of-range index and without an underflow whatever the coordinates    *)
(* are: for each pixel that reaches the buffers the subtractions of        *)
(* apply_rotation stay at or above zero and the index is below the length  *)
(* of both buffers; and a call whose pixels are all negative or outside    *)
(* size() leaves both buffers as they were.                                *)
(***************************************************************************)
C39_DrawIterSafe ==
    (call.op = "draw_iter") =>
        LET width == config.dimensions.cols
            height == config.dimensions.rows
            swap == config.rotation \in {"Rotate90", "Rotate270"}
            Outside(px) ==
                \/ px.x < 0 \/ px.y < 0
                \/ px.x >= (IF swap THEN height ELSE width)
                \/ px.y >= (IF swap THEN width ELSE height)
            Reaches(px) == ~Outside(px) /\ px.x < width /\ px.y < height
            Index(px) == apply_rotation(px.x, px.y, width, height,
                                        config.rotation).index
        IN  /\ result = Ok
            /\ Len(graphic.black_buffer) = Len(call.black)
            /\ Len(graphic.red_buffer) = Len(call.red)
            /\ \A k \in 1..Len(call.pixels) :
                   LET px == call.pixels[k]
                   IN  Reaches(px) =>
                           /\ config.rotation = "Rotate90" =>
                                  width - 1 - px.y >= 0
                           /\ config.rotation = "Rotate270" =>
                                  height - 1 - px.x >= 0
                           /\ config.rotation = "Rotate180" =>
                                  ((width \div 8) * height - 1)
                                     - (px.x \div 8 + (width \div 8) * px.y)
                                  >= 0
                           /\ 0 <= Index(px)
                           /\ Index(px) < Len(call.black)
                           /\ Index(px) < Len(call.red)
            /\ (\A k \in 1..Len(call.pixels) : Outside(call.pixels[k])) =>
                   /\ graphic.black_buffer = call.black
                   /\ graphic.red_buffer = call.red

\* a Red pixel one row below size() on the 9-row panel turned by 90 degrees,
\* given to buffers cleared to White: nothing changed
C39_Witness ==
    /\ call.op = "draw_iter" /\ result = Ok
    /\ config.dimensions = [rows |-> 9, cols |-> 8]
    /\ config.rotation = "Rotate90"
    /\ call.pixels = << [x |-> 0, y |-> 8, color |-> "Red"] >>
    /\ call.black = [i \in 1..9 |-> 255]
    /\ graphic.black_buffer = call.black /\ graphic.red_buffer = call.red

====
